---- MODULE Spec2Model ----
(***************************************************************************)
(* Document ingestion pipeline of the chat application: format dispatch,   *)
(* sentence-aware chunking, the upload handler and the storage service     *)
(* (parse -> duplicate check -> blob store -> embed -> transactional       *)
(* insert) over a PostgreSQL database with concurrent requests.            *)
(*                                                                         *)
(* Optional values: a Python None is the string None for string-valued     *)
(* fields, NoId (0) for document ids and Omitted (-1) for the optional     *)
(* integer parameters chunk_size / chunk_overlap.                          *)
(***************************************************************************)
EXTENDS Integers, Sequences, FiniteSets, TLC

VARIABLES
    \* ---- committed database state (what every other connection sees) ----
    documents,          \* rows of table documents
    document_chunks,    \* rows of table document_chunks
    document_tables,    \* rows of table document_tables
    document_links,     \* rows of table document_links
    next_id,            \* next fresh document id (RETURNING id)
    \* ---- one store_document call per upload request p ----
    pc,                 \* position of call p in store_document
    file,               \* the uploaded bytes of call p
    inv,                \* investigation_id of call p
    existing,           \* result of _check_duplicate of call p
    s3_key,             \* blob key of call p
    embeddings,         \* result of embed_batch of call p
    doc_id,             \* id returned by _insert_document of call p
    tx,                 \* rows written inside call p's open transaction
    result,             \* return value of store_document of call p
    held,               \* number of pooled connections call p holds
    \* ---- DELETE /documents/{id} requests and delete_document history ----
    s3_service,         \* the blob store the service was built with, or None
    delete_ok_count,    \* per id: how often delete_document(id) returned True
    last_delete,        \* the last delete request: prior state and HTTP status
    \* ---- one call of BaseParser.chunk_text ----
    ct_text,            \* argument text (a sequence of characters)
    ct_size,            \* argument chunk_size (Omitted for None)
    ct_overlap,         \* argument chunk_overlap (Omitted for None)
    ct_chunks,          \* the returned list of TextChunk
    ct_done,            \* whether the call has returned
    \* ---- one call of DocumentParserService.parse_upload ----
    pu_filename,        \* argument filename (a sequence of tokens)
    pu_data,            \* what the uploaded file holds
    pu_chunk_size,      \* argument chunk_size (Omitted for None)
    pu_chunk_overlap,   \* argument chunk_overlap (Omitted for None)
    pu_result,          \* the returned ParserResult
    pu_calls,           \* the extractor calls and stream reads made, in order
    pu_done,            \* whether the call has returned
    pu_temp_files,      \* the temporary files of the call that are on disk
    \* ---- one POST /documents/upload request ----
    b_files,            \* the uploaded files, in request order
    b_inv,              \* the request's investigation_id
    b_next,             \* position of the file the handler's loop is at
    b_results,          \* the handler's list results
    b_response,         \* the response, once returned
    \* ---- one ParserRegistry ----
    _parsers,           \* the dict _parsers: file type tag -> extractor
    register_calls,     \* the register calls made so far, in order
    \* ---- one call of DocumentContextBuilder.build_from_search ----
    bc_doc_results,     \* the rows search_document_chunks returns
    bc_email_matches,   \* the emails over the threshold, nearest first
    bc_max_chunks,      \* argument max_chunks (Omitted for None)
    bc_include_emails,  \* argument include_emails
    bc_context,         \* the returned BuiltContext
    bc_done,            \* whether the call has returned
    \* ---- one call of BuiltContext.to_text ----
    tt_chunks,          \* the chunk list of the context
    tt_max_chars,       \* argument max_chars (Omitted for None)
    tt_text,            \* the returned text (a sequence of characters)
    tt_done,            \* whether the call has returned
    \* ---- the module-level connection pool of core/database.py ----
    _pool,              \* the global _pool: NoPool or the number of a pool
    pools_created,      \* how many pools create_pool has made
    pool_pc,            \* position of caller c in init_pool / get_pool
    pool_call,          \* which function caller c called
    pool_returned,      \* the pool caller c was given
    \* ---- one build_chat_context call ----
    cc_document_ids,    \* argument document_ids: Absent (None) or Some(list)
    cc_max_context_items, \* argument max_context_items
    cc_chunk_rows,      \* database: number of chunk rows of each document
    cc_pc,              \* position of the call
    cc_context_parts,   \* the local list context_parts
    cc_searched,        \* whether build_from_search was called
    cc_result           \* {} until the call returns, then {the dict}

storeVars == <<documents, document_chunks, document_tables, document_links, next_id,
               pc, file, inv, existing, s3_key, embeddings, doc_id, tx, result,
               s3_service, delete_ok_count, last_delete, held>>

chunkVars == <<ct_text, ct_size, ct_overlap, ct_chunks, ct_done>>

parseVars == <<pu_filename, pu_data, pu_chunk_size, pu_chunk_overlap, pu_result,
               pu_calls, pu_done,
               pu_temp_files>>

batchVars == <<b_files, b_inv, b_next, b_results, b_response>>

registryVars == <<_parsers, register_calls>>

searchVars == <<bc_doc_results, bc_email_matches, bc_max_chunks, bc_include_emails,
                bc_context, bc_done>>

textVars == <<tt_chunks, tt_max_chars, tt_text, tt_done>>

\* the components that the ingestion steps never touch
poolVars == <<_pool, pools_created, pool_pc, pool_call, pool_returned>>

chatVars == <<cc_document_ids, cc_max_context_items, cc_chunk_rows, cc_pc,
              cc_context_parts, cc_searched, cc_result>>

otherVars == <<registryVars, searchVars, textVars, poolVars, chatVars>>

vars == <<storeVars, chunkVars, parseVars, batchVars, otherVars>>

None == "None"
NoHeading == <<None>>
NoId == 0
Omitted == -1

\* ------------------------------------------------------------------ bounds
NumUploads == 2
\* cap of the per-document count of successful deletes
MaxDeleteOk == 2

Uploads == 1..NumUploads
DocIds == 1..NumUploads

\* The uploaded contents: two parseable files, one that parses to zero
\* chunks and one that fails to parse.
UploadFiles == {"report", "memo", "blank", "corrupt"}
\* the contents the concurrent requests draw from
ConcurrentFiles == {"report", "blank"}
Investigations == {None, "inv-1"}

\* ----------------------------------------------------- parsing (abstract)
\* SHA-256 of the raw bytes: equal bytes, equal hash.
compute_file_hash(b) == <<"sha256", b>>

NumParsedChunks(b) ==
    CASE b = "report" -> 2
      [] b = "memo" -> 1
      [] OTHER -> 0

\* result of parser_service.parse_upload for the bytes b
parse_upload_result(b) ==
    [success |-> b # "corrupt",
     file_hash |-> compute_file_hash(b),
     chunks |-> [i \in 1..NumParsedChunks(b) |->
                    [chunk_index |-> i - 1, content |-> <<b, i - 1>>]],
     tables |-> IF b = "report" THEN <<"t0">> ELSE <<>>,
     links |-> IF b = "report" THEN <<"http://x.test", "http://x.test">> ELSE <<>>]

\* ------------------------------------------------------------ embeddings
embed(text) == <<"vec", text>>

embed_batch(texts) == [i \in DOMAIN texts |-> embed(texts[i])]

\* ------------------------------------------------------- database helpers
EmptyTx == [documents |-> {}, document_chunks |-> {}, document_tables |-> {},
            document_links |-> {}]

Range(s) == {s[i] : i \in DOMAIN s}

\* variant: the NULL collection compared with "=" (never true in SQL), so a
\* document without investigation is never found again
_check_duplicate_null_unequal(file_hash, investigation_id) ==
    LET hits == {d.id : d \in {r \in documents :
                        /\ r.file_hash = file_hash
                        /\ r.investigation_id = investigation_id
                        /\ investigation_id # None}}
    IN  IF hits = {} THEN {NoId} ELSE hits

\* variant: the lookup goes by file hash alone
_check_duplicate_any_collection(file_hash, investigation_id) ==
    LET hits == {d.id : d \in {r \in documents : r.file_hash = file_hash}}
    IN  IF hits = {} THEN {NoId} ELSE hits

\* SELECT id FROM documents WHERE file_hash = $1 AND investigation_id = $2
\* (or IS NULL): the ids fetchrow may return; {NoId} when no row matches.
_check_duplicate(file_hash, investigation_id) ==
    LET hits == {d.id : d \in {r \in documents :
                        /\ r.file_hash = file_hash
                        /\ r.investigation_id = investigation_id}}
    IN  IF hits = {} THEN {NoId} ELSE hits

\* status string of DELETE FROM documents WHERE id = $1
DeleteStatus(id) ==
    IF \E d \in documents : d.id = id THEN "DELETE 1" ELSE "DELETE 0"

\* variant: any DELETE status counts as success
delete_document_returns_any(id) == DeleteStatus(id) \in {"DELETE 1", "DELETE 0"}

\* return value of delete_document
delete_document_returns(id) == DeleteStatus(id) = "DELETE 1"

\* the child rows that survive the delete of document id (foreign key with
\* ON DELETE CASCADE from every child table to documents)
CascadeDelete(rows, id) == {r \in rows : r.document_id # id}

\* the whole effect of delete_document(id) on the committed state
delete_document(id) ==
    /\ documents' = {d \in documents : d.id # id}
    /\ document_chunks' = CascadeDelete(document_chunks, id)
    /\ document_tables' = CascadeDelete(document_tables, id)
    /\ document_links' = CascadeDelete(document_links, id)
    /\ delete_ok_count' =
         IF delete_document_returns(id) /\ delete_ok_count[id] < MaxDeleteOk
         THEN [delete_ok_count EXCEPT ![id] = @ + 1]
         ELSE delete_ok_count

\* SELECT ... FROM document_chunks WHERE document_id = $1 ORDER BY chunk_index
get_document_chunks(id) == {c \in document_chunks : c.document_id = id}

\* ------------------------------------------------------------------ Init
InitStore ==
    /\ documents = {}
    /\ document_chunks = {}
    /\ document_tables = {}
    /\ document_links = {}
    /\ next_id = 1
    /\ pc = [p \in Uploads |-> "idle"]
    /\ file = [p \in Uploads |-> None]
    /\ inv = [p \in Uploads |-> None]
    /\ existing = [p \in Uploads |-> NoId]
    /\ s3_key = [p \in Uploads |-> None]
    /\ embeddings = [p \in Uploads |-> <<>>]
    /\ doc_id = [p \in Uploads |-> NoId]
    /\ tx = [p \in Uploads |-> EmptyTx]
    /\ result = [p \in Uploads |-> NoId]
    /\ held = [p \in Uploads |-> 0]
    /\ delete_ok_count = [id \in DocIds |-> 0]
    /\ last_delete = [deleted_before |-> FALSE, status |-> 0]

\* no chunk_text call under way
IdleChunk ==
    /\ ct_text = <<>>
    /\ ct_size = Omitted
    /\ ct_overlap = Omitted
    /\ ct_chunks = <<>>
    /\ ct_done = FALSE

\* no parse_upload call under way
IdleParse ==
    /\ pu_filename = <<>>
    /\ pu_data = {}
    /\ pu_chunk_size = Omitted
    /\ pu_chunk_overlap = Omitted
    /\ pu_result = {}
    /\ pu_calls = <<>>
    /\ pu_done = FALSE
    /\ pu_temp_files = {}

\* no upload request under way
IdleBatch ==
    /\ b_files = <<>>
    /\ b_inv = None
    /\ b_next = 1
    /\ b_results = <<>>
    /\ b_response = {}

\* no registry under observation
IdleRegistry ==
    /\ _parsers = <<>>
    /\ register_calls = <<>>

\* no build_from_search call under way
IdleSearch ==
    /\ bc_doc_results = <<>>
    /\ bc_email_matches = <<>>
    /\ bc_max_chunks = Omitted
    /\ bc_include_emails = FALSE
    /\ bc_context = {}
    /\ bc_done = FALSE

\* no to_text call under way
IdleText ==
    /\ tt_chunks = <<>>
    /\ tt_max_chars = Omitted
    /\ tt_text = <<>>
    /\ tt_done = FALSE

NumPoolCallers == 3
PoolCallers == 1..NumPoolCallers
NoPool == 0

\* the module as imported: no pool, nobody calling
IdlePool ==
    /\ _pool = NoPool
    /\ pools_created = 0
    /\ pool_pc = [c \in PoolCallers |-> "idle"]
    /\ pool_call = [c \in PoolCallers |-> None]
    /\ pool_returned = [c \in PoolCallers |-> NoPool]

\* no build_chat_context call
IdleChat ==
    /\ cc_document_ids = {}
    /\ cc_max_context_items = 0
    /\ cc_chunk_rows = <<>>
    /\ cc_pc = "idle"
    /\ cc_context_parts = <<>>
    /\ cc_searched = FALSE
    /\ cc_result = {}

IdleOthers ==
    /\ IdleRegistry
    /\ IdleSearch
    /\ IdleText
    /\ IdlePool
    /\ IdleChat

\* the ingestion side at rest
IdleIngestion ==
    /\ InitStore
    /\ s3_service = None
    /\ IdleChunk
    /\ IdleParse
    /\ IdleBatch

\* the application as the router wires it: DocumentStorageService(pool),
\* without a blob store
Init ==
    /\ InitStore
    /\ s3_service = None
    /\ IdleChunk
    /\ IdleParse
    /\ IdleBatch
    /\ IdleOthers

dbVars == <<documents, document_chunks, document_tables, document_links>>
\* what no step of a store_document call changes
callEnvironment == <<s3_service, delete_ok_count, last_delete, chunkVars, parseVars,
                     batchVars, otherVars>>
deleteHistory == <<callEnvironment, held>>

\* --------------------------------------------------- store_document steps
\* variant: only a failed parse aborts, a successful parse without chunks
\* goes on
ParseStepKeepsEmpty(p, files, investigations) ==
    /\ pc[p] = "idle"
    /\ \E b \in files, i \in investigations :
         LET r == parse_upload_result(b)
         IN  /\ file' = [file EXCEPT ![p] = b]
             /\ inv' = [inv EXCEPT ![p] = i]
             /\ pc' = [pc EXCEPT ![p] =
                         IF ~r.success THEN "returned_none" ELSE "check_duplicate"]
    /\ UNCHANGED <<dbVars, next_id, existing, s3_key, embeddings, doc_id, tx,
                   result, deleteHistory>>

\* read the bytes, parse, abort on failure or zero chunks
ParseStep(p, files, investigations) ==
    /\ pc[p] = "idle"
    /\ \E b \in files, i \in investigations :
         LET r == parse_upload_result(b)
         IN  /\ file' = [file EXCEPT ![p] = b]
             /\ inv' = [inv EXCEPT ![p] = i]
             /\ pc' = [pc EXCEPT ![p] =
                         IF ~r.success \/ r.chunks = <<>>
                         THEN "returned_none" ELSE "check_duplicate"]
    /\ UNCHANGED <<dbVars, next_id, existing, s3_key, embeddings, doc_id, tx,
                   result, deleteHistory>>

SameKey(p, q) == file[p] = file[q] /\ inv[p] = inv[q]

PastCheck(p) ==
    pc[p] \in {"delete_existing", "store_original", "embed", "tx_document",
               "tx_chunks", "tx_tables", "tx_links", "tx_commit"}

\* variant: the check takes a lock keyed by (hash, collection) that is held
\* until the insert commits
CheckDuplicateLocked(p) ==
    /\ pc[p] = "check_duplicate"
    /\ \A q \in Uploads \ {p} : ~(SameKey(p, q) /\ PastCheck(q))
    /\ \E e \in _check_duplicate(compute_file_hash(file[p]), inv[p]) :
         /\ existing' = [existing EXCEPT ![p] = e]
         /\ pc' = [pc EXCEPT ![p] =
                     IF e # NoId THEN "delete_existing" ELSE "store_original"]
    /\ UNCHANGED <<dbVars, next_id, file, inv, s3_key, embeddings, doc_id, tx,
                   result, deleteHistory>>

CheckDuplicate(p) ==
    /\ pc[p] = "check_duplicate"
    /\ \E e \in _check_duplicate(compute_file_hash(file[p]), inv[p]) :
         /\ existing' = [existing EXCEPT ![p] = e]
         /\ pc' = [pc EXCEPT ![p] =
                     IF e # NoId THEN "delete_existing" ELSE "store_original"]
    /\ UNCHANGED <<dbVars, next_id, file, inv, s3_key, embeddings, doc_id, tx,
                   result, deleteHistory>>

DeleteExisting(p) ==
    /\ pc[p] = "delete_existing"
    /\ delete_document(existing[p])
    /\ pc' = [pc EXCEPT ![p] =
                IF delete_document_returns(existing[p])
                THEN "store_original" ELSE "returned_none"]
    /\ UNCHANGED <<next_id, file, inv, existing, s3_key, embeddings, doc_id, tx,
                   result, s3_service, last_delete, chunkVars, parseVars,
                   batchVars, otherVars, held>>

\* variant: an exception of upload_file is not caught and ends the call
StoreOriginalAborts(p) ==
    /\ pc[p] = "store_original"
    /\ \E outcome \in IF s3_service = None THEN {"skipped"} ELSE {"stored", "raises"} :
         /\ s3_key' = [s3_key EXCEPT ![p] =
                         IF outcome = "stored" THEN "s3-key" ELSE None]
         /\ pc' = [pc EXCEPT ![p] =
                     IF outcome = "raises" THEN "raised" ELSE "embed"]
    /\ UNCHANGED <<dbVars, next_id, file, inv, existing, embeddings, doc_id, tx,
                   result, deleteHistory>>

\* the blob store is optional and best effort: a key, or None when it is not
\* configured or upload_file raises
StoreOriginal(p) ==
    /\ pc[p] = "store_original"
    /\ \E outcome \in IF s3_service = None THEN {"skipped"} ELSE {"stored", "raises"} :
         s3_key' = [s3_key EXCEPT ![p] =
                      IF outcome = "stored" THEN "s3-key" ELSE None]
    /\ pc' = [pc EXCEPT ![p] = "embed"]
    /\ UNCHANGED <<dbVars, next_id, file, inv, existing, embeddings, doc_id, tx,
                   result, deleteHistory>>

ChunkTexts(p) ==
    LET cs == parse_upload_result(file[p]).chunks
    IN  [i \in DOMAIN cs |-> cs[i].content]

EmbedBatch(p) ==
    /\ pc[p] = "embed"
    /\ embeddings' = [embeddings EXCEPT ![p] = embed_batch(ChunkTexts(p))]
    /\ pc' = [pc EXCEPT ![p] = "tx_document"]
    /\ UNCHANGED <<dbVars, next_id, file, inv, existing, s3_key, doc_id, tx,
                   result, deleteHistory>>

EmbedBatchRaises(p) ==
    /\ pc[p] = "embed"
    /\ pc' = [pc EXCEPT ![p] = "raised"]
    /\ UNCHANGED <<dbVars, next_id, file, inv, existing, s3_key, embeddings,
                   doc_id, tx, result, deleteHistory>>

\* ---- the transaction: rows go to tx[p] and are invisible until commit ----
_insert_document(p) ==
    [id |-> next_id,
     file_hash |-> parse_upload_result(file[p]).file_hash,
     investigation_id |-> inv[p],
     s3_key |-> s3_key[p]]

\* variant: the document row is written outside any transaction
TxInsertDocumentAutocommit(p) ==
    /\ pc[p] = "tx_document"
    /\ doc_id' = [doc_id EXCEPT ![p] = next_id]
    /\ next_id' = next_id + 1
    /\ documents' = documents \cup {_insert_document(p)}
    /\ pc' = [pc EXCEPT ![p] = "tx_chunks"]
    /\ held' = [held EXCEPT ![p] = @ + 1]
    /\ UNCHANGED <<document_chunks, document_tables, document_links, tx, file,
                   inv, existing, s3_key, embeddings, result, callEnvironment>>

\* async with self.db_pool.acquire() as conn, async with conn.transaction(),
\* then the first insert
TxInsertDocument(p) ==
    /\ pc[p] = "tx_document"
    /\ doc_id' = [doc_id EXCEPT ![p] = next_id]
    /\ next_id' = next_id + 1
    /\ tx' = [tx EXCEPT ![p].documents = {_insert_document(p)}]
    /\ pc' = [pc EXCEPT ![p] = "tx_chunks"]
    /\ held' = [held EXCEPT ![p] = @ + 1]
    /\ UNCHANGED <<dbVars, file, inv, existing, s3_key, embeddings, result,
                   callEnvironment>>

\* variant: every record takes the embedding of the next chunk of the list
_insert_chunks_shifted(id, chunks, embs) ==
    {[document_id |-> id,
      chunk_index |-> chunks[i].chunk_index,
      content |-> chunks[i].content,
      embedding |-> embs[(i % Len(embs)) + 1]] : i \in DOMAIN chunks}

\* one record per chunk, paired with the embedding at the same position
_insert_chunks(id, chunks, embs) ==
    {[document_id |-> id,
      chunk_index |-> chunks[i].chunk_index,
      content |-> chunks[i].content,
      embedding |-> embs[i]] : i \in DOMAIN chunks}

_insert_tables(id, tables) ==
    {[document_id |-> id, table_index |-> i - 1] : i \in DOMAIN tables}

\* unique_links = list(set(links))
_insert_links(id, links) ==
    {[document_id |-> id, url |-> u] : u \in Range(links)}

AfterChunks(p) ==
    LET r == parse_upload_result(file[p])
    IN  IF r.tables # <<>> THEN "tx_tables"
        ELSE IF r.links # <<>> THEN "tx_links" ELSE "tx_commit"

TxInsertChunks(p) ==
    /\ pc[p] = "tx_chunks"
    /\ tx' = [tx EXCEPT ![p].document_chunks =
                _insert_chunks(doc_id[p], parse_upload_result(file[p]).chunks,
                               embeddings[p])]
    /\ pc' = [pc EXCEPT ![p] = AfterChunks(p)]
    /\ UNCHANGED <<dbVars, next_id, file, inv, existing, s3_key, embeddings,
                   doc_id, result, deleteHistory>>

TxInsertTables(p) ==
    /\ pc[p] = "tx_tables"
    /\ tx' = [tx EXCEPT ![p].document_tables =
                _insert_tables(doc_id[p], parse_upload_result(file[p]).tables)]
    /\ pc' = [pc EXCEPT ![p] =
                IF parse_upload_result(file[p]).links # <<>>
                THEN "tx_links" ELSE "tx_commit"]
    /\ UNCHANGED <<dbVars, next_id, file, inv, existing, s3_key, embeddings,
                   doc_id, result, deleteHistory>>

TxInsertLinks(p) ==
    /\ pc[p] = "tx_links"
    /\ tx' = [tx EXCEPT ![p].document_links =
                _insert_links(doc_id[p], parse_upload_result(file[p]).links)]
    /\ pc' = [pc EXCEPT ![p] = "tx_commit"]
    /\ UNCHANGED <<dbVars, next_id, file, inv, existing, s3_key, embeddings,
                   doc_id, result, deleteHistory>>

\* leaving the transaction block normally commits every row at once
TxCommit(p) ==
    /\ pc[p] = "tx_commit"
    /\ documents' = documents \cup tx[p].documents
    /\ document_chunks' = document_chunks \cup tx[p].document_chunks
    /\ document_tables' = document_tables \cup tx[p].document_tables
    /\ document_links' = document_links \cup tx[p].document_links
    /\ tx' = [tx EXCEPT ![p] = EmptyTx]
    /\ result' = [result EXCEPT ![p] = doc_id[p]]
    /\ pc' = [pc EXCEPT ![p] = "stored"]
    /\ held' = [held EXCEPT ![p] = IF @ > 0 THEN @ - 1 ELSE 0]
    /\ UNCHANGED <<next_id, file, inv, existing, s3_key, embeddings, doc_id,
                   callEnvironment>>

InTransaction(p) ==
    pc[p] \in {"tx_document", "tx_chunks", "tx_tables", "tx_links", "tx_commit"}

\* variant: a failed transaction is rolled back and run again from its first
\* statement
TxRaisesRetries(p) ==
    /\ InTransaction(p)
    /\ pc[p] # "tx_document"
    /\ tx' = [tx EXCEPT ![p] = EmptyTx]
    /\ pc' = [pc EXCEPT ![p] = "tx_document"]
    /\ held' = [held EXCEPT ![p] = IF @ > 0 THEN @ - 1 ELSE 0]
    /\ UNCHANGED <<dbVars, next_id, file, inv, existing, s3_key, embeddings,
                   doc_id, result, callEnvironment>>

\* variant: the connection is released on the normal path only
TxRaisesKeepsConnection(p) ==
    /\ InTransaction(p)
    /\ tx' = [tx EXCEPT ![p] = EmptyTx]
    /\ pc' = [pc EXCEPT ![p] = "raised"]
    /\ UNCHANGED <<dbVars, next_id, file, inv, existing, s3_key, embeddings,
                   doc_id, result, deleteHistory>>

\* pool.acquire() or any statement of the transaction (or the commit)
\* raises: rollback, and the async with block releases the connection
TxRaises(p) ==
    /\ InTransaction(p)
    /\ tx' = [tx EXCEPT ![p] = EmptyTx]
    /\ pc' = [pc EXCEPT ![p] = "raised"]
    /\ held' = [held EXCEPT ![p] = IF @ > 0 THEN @ - 1 ELSE 0]
    /\ UNCHANGED <<dbVars, next_id, file, inv, existing, s3_key, embeddings,
                   doc_id, result, callEnvironment>>

\* ------------------------------------------- DELETE /documents/{id} route
DeleteDocumentRequest(id) ==
    /\ id < next_id
    /\ delete_document(id)
    /\ last_delete' = [deleted_before |-> delete_ok_count[id] > 0,
                       status |-> IF delete_document_returns(id) THEN 200 ELSE 404]
    /\ UNCHANGED <<next_id, pc, file, inv, existing, s3_key, embeddings, doc_id,
                   tx, result, s3_service, chunkVars, parseVars, batchVars, otherVars,
                   held>>

\* ------------------------------------------------------------------ Next
\* the steps of store_document after parsing
StoreSteps(p) ==
    \/ CheckDuplicate(p)
    \/ DeleteExisting(p)
    \/ StoreOriginal(p)
    \/ EmbedBatch(p)
    \/ EmbedBatchRaises(p)
    \/ TxInsertDocument(p)
    \/ TxInsertChunks(p)
    \/ TxInsertTables(p)
    \/ TxInsertLinks(p)
    \/ TxCommit(p)
    \/ TxRaises(p)

Next ==
    \/ \E p \in Uploads : ParseStep(p, ConcurrentFiles, Investigations)
    \/ \E p \in Uploads : StoreSteps(p)
    \/ \E id \in DocIds : DeleteDocumentRequest(id)

Spec == Init /\ [][Next]_vars

\* ---- the service called by one caller at a time (calls never overlap) ----
InFlight(p) == pc[p] \notin {"idle", "stored", "returned_none", "raised"}

InitSeq ==
    /\ InitStore
    /\ s3_service \in {None, "s3"}
    /\ IdleChunk
    /\ IdleParse
    /\ IdleBatch
    /\ IdleOthers

\* a call starts only when no other call is running
ParseStepAlone(p) ==
    /\ \A q \in Uploads \ {p} : ~InFlight(q)
    /\ ParseStep(p, UploadFiles, Investigations)

NextSeq ==
    \/ \E p \in Uploads : ParseStepAlone(p)
    \/ \E p \in Uploads : StoreSteps(p)

SpecSeq == InitSeq /\ [][NextSeq]_vars

\* =========================================================== chunk_text
\* Text is a sequence of one-character strings.
default_chunk_size == 1000
default_chunk_overlap == 200

\* Python's "x or default" on an optional integer: None and 0 are falsy
OrDefault(x, default) == IF x = Omitted \/ x = 0 THEN default ELSE x

IsSpace(c) == c \in {" ", "\n", "\t"}
IsSentenceEnd(c) == c \in {".", "!", "?"}

RECURSIVE LStrip(_)
LStrip(s) ==
    IF s # <<>> /\ IsSpace(Head(s)) THEN LStrip(Tail(s)) ELSE s

RECURSIVE RStrip(_)
RStrip(s) ==
    IF s # <<>> /\ IsSpace(s[Len(s)]) THEN RStrip(SubSeq(s, 1, Len(s) - 1)) ELSE s

\* str.strip()
Strip(s) == LStrip(RStrip(s))

\* re.split(r'(?<=[.!?])\s+', text): the pieces between the whitespace runs
\* that directly follow a sentence end; i is the next position to read, cur
\* the piece being read, acc the finished pieces
RECURSIVE ReSplit(_, _, _, _)
ReSplit(text, i, cur, acc) ==
    IF i > Len(text) THEN Append(acc, cur)
    ELSE IF i > 1 /\ IsSentenceEnd(text[i - 1]) /\ IsSpace(text[i])
         THEN LET rest == SubSeq(text, i, Len(text))
                  j == i + (Len(rest) - Len(LStrip(rest)))
              IN  ReSplit(text, j, <<>>, Append(acc, cur))
         ELSE ReSplit(text, i + 1, Append(cur, text[i]), acc)

SelectSeqNonBlank(pieces) == SelectSeq(pieces, LAMBDA s : Strip(s) # <<>>)

\* [s + " " for s in sentences if s.strip()]
_split_sentences(text) ==
    LET pieces == SelectSeqNonBlank(ReSplit(text, 1, <<>>, <<>>))
    IN  [k \in DOMAIN pieces |-> Append(pieces[k], " ")]

\* index of the first " " of s, -1 when there is none (str.find, 0-based)
RECURSIVE FindSpace(_, _)
FindSpace(s, k) ==
    IF k > Len(s) THEN -1
    ELSE IF s[k] = " " THEN k - 1 ELSE FindSpace(s, k + 1)

\* text[-n:]; for n = 0 Python's text[-0:] is the whole text
LastChars(text, n) ==
    IF n = 0 THEN text ELSE SubSeq(text, Len(text) - n + 1, Len(text))

_get_overlap(text, overlap_size) ==
    IF Len(text) <= overlap_size THEN text
    ELSE LET overlap == LastChars(text, overlap_size)
             space_idx == FindSpace(overlap, 1)
         IN  IF space_idx > 0
             THEN SubSeq(overlap, space_idx + 2, Len(overlap))
             ELSE overlap

TextChunk(content, source, chunk_index) ==
    [content |-> content, source |-> source, chunk_index |-> chunk_index,
     heading |-> NoHeading, page_number |-> Omitted]

\* the for loop of chunk_text over sentences[k..]: the state is the buffer
\* current_chunk, the counter chunk_idx and the list chunks
RECURSIVE ChunkLoop(_, _, _, _, _, _, _, _)
ChunkLoop(sentences, k, current_chunk, chunk_idx, chunks, source_prefix, size, overlap) ==
    IF k > Len(sentences)
    THEN IF Strip(current_chunk) # <<>>
         THEN Append(chunks, TextChunk(Strip(current_chunk),
                                       <<source_prefix, chunk_idx>>, chunk_idx))
         ELSE chunks
    ELSE IF current_chunk # <<>> /\ Len(current_chunk) + Len(sentences[k]) > size
         THEN ChunkLoop(sentences, k + 1,
                        _get_overlap(current_chunk, overlap) \o sentences[k],
                        chunk_idx + 1,
                        Append(chunks, TextChunk(Strip(current_chunk),
                                                 <<source_prefix, chunk_idx>>, chunk_idx)),
                        source_prefix, size, overlap)
         ELSE ChunkLoop(sentences, k + 1, current_chunk \o sentences[k],
                        chunk_idx, chunks, source_prefix, size, overlap)

chunk_text(text, source_prefix, chunk_size, chunk_overlap) ==
    LET size == OrDefault(chunk_size, default_chunk_size)
        overlap == OrDefault(chunk_overlap, default_chunk_overlap)
    IN  IF text = <<>> \/ Strip(text) = <<>> THEN <<>>
        ELSE ChunkLoop(_split_sentences(text), 1, <<>>, 0, <<>>,
                       source_prefix, size, overlap)

\* ---- the specification of one chunk_text call on bounded inputs ----
MaxTextLen == 6
Alphabet == {"a", " ", "."}
Texts == UNION {[1..n -> Alphabet] : n \in 0..MaxTextLen}
ChunkSizes == {Omitted, 2, 3, 4}
ChunkOverlaps == {Omitted, 0, 1, 2, 3}

InitChunk ==
    /\ InitStore
    /\ s3_service = None
    /\ ct_text \in Texts
    /\ ct_size \in ChunkSizes
    /\ ct_overlap \in ChunkOverlaps
    /\ ct_chunks = <<>>
    /\ ct_done = FALSE
    /\ IdleParse
    /\ IdleBatch
    /\ IdleOthers

ChunkTextCall ==
    /\ ~ct_done
    /\ ct_chunks' = chunk_text(ct_text, "chunk", ct_size, ct_overlap)
    /\ ct_done' = TRUE
    /\ UNCHANGED <<storeVars, otherVars, ct_text, ct_size, ct_overlap, parseVars, batchVars>>

NextChunk == ChunkTextCall

SpecChunk == InitChunk /\ [][NextChunk]_vars

\* ================================================= file types and registry
\* A filename is a sequence of tokens: words, "." and "/".  An optional
\* object (metadata, content) is the empty set or a singleton.
Absent == {}
Some(x) == {x}

\* the values of the FileType enum
FileTypeValues ==
    {"docx", "doc", "pptx", "ppt", "xlsx", "xls",
     "txt", "md", "csv", "json", "xml", "html",
     "pdf", "eml", "msg", "pst",
     "png", "jpg", "jpeg", "tiff",
     "rtf", "odt", "ods", "odp", "unknown"}

\* str.lower() on the words that occur in the filenames
Lower(w) ==
    CASE w = "TXT" -> "txt"
      [] w = "Pdf" -> "pdf"
      [] w = "PPTX" -> "pptx"
      [] w = "MSG" -> "msg"
      [] OTHER -> w

\* index of the last occurrence of token t in s, 0 when there is none
RECURSIVE LastIndexOf(_, _, _)
LastIndexOf(s, t, k) ==
    IF k = 0 THEN 0
    ELSE IF s[k] = t THEN k ELSE LastIndexOf(s, t, k - 1)

\* Path(filename).name: what follows the last "/"
PathName(filename) ==
    SubSeq(filename, LastIndexOf(filename, "/", Len(filename)) + 1, Len(filename))

\* Path(filename).suffix: from the last "." of the name on, when that dot
\* is neither the first nor the last character of the name
PathSuffix(filename) ==
    LET name == PathName(filename)
        i == LastIndexOf(name, ".", Len(name))
    IN  IF 1 < i /\ i < Len(name) THEN SubSeq(name, i, Len(name)) ELSE <<>>

\* suffix.lower().lstrip("."): "" when there is no suffix
Extension(filename) ==
    LET suffix == PathSuffix(filename)
    IN  IF suffix = <<>> THEN "" ELSE Lower(suffix[Len(suffix)])

detect_file_type(filename) ==
    IF Extension(filename) \in FileTypeValues THEN Extension(filename) ELSE "unknown"

\* supported_types of each parser class
supported_types(parser) ==
    CASE parser = "DocxParser" -> <<"docx", "doc">>
      [] parser = "PptxParser" -> <<"pptx", "ppt">>
      [] parser = "XlsxParser" -> <<"xlsx", "xls", "csv">>
      [] parser = "TextParser" -> <<"txt", "md", "html", "json", "xml", "rtf">>
      [] parser = "PdfParser" -> <<"pdf">>
      [] parser = "EmlParser" -> <<"eml">>

DefaultParsers ==
    <<"DocxParser", "PptxParser", "XlsxParser", "TextParser", "PdfParser", "EmlParser">>

\* ParserRegistry._parsers is a dict; a tag without entry maps to None here
EmptyRegistry == [t \in FileTypeValues |-> None]

register(parsers, file_type, parser) == [parsers EXCEPT ![file_type] = parser]

\* for file_type in parser.supported_types: self.register(file_type, parser)
RECURSIVE RegisterTypes(_, _, _)
RegisterTypes(parsers, parser, k) ==
    IF k > Len(supported_types(parser)) THEN parsers
    ELSE RegisterTypes(register(parsers, supported_types(parser)[k], parser),
                       parser, k + 1)

RECURSIVE RegisterParsers(_, _)
RegisterParsers(parsers, k) ==
    IF k > Len(DefaultParsers) THEN parsers
    ELSE RegisterParsers(RegisterTypes(parsers, DefaultParsers[k], 1), k + 1)

_register_default_parsers == RegisterParsers(EmptyRegistry, 1)

\* a registry that hands out the text parser for every tag nobody owns
get_parser_with_fallback(file_type) ==
    IF _register_default_parsers[file_type] = None
    THEN "TextParser"
    ELSE _register_default_parsers[file_type]

get_parser(file_type) == _register_default_parsers[file_type]

get_parser_for_file(filename) == get_parser(detect_file_type(filename))

is_supported(file_type) == _register_default_parsers[file_type] # None

\* ============================================================ extractors
\* What a file holds, as far as the extractors look at it:
\*   decoded      the decoded text of a text or CSV file, the body of an email
\*   units        the texts of the pages / slides / paragraphs / sheets, in
\*                order; <<>> for a unit without text
\*   tables       the tables the format library finds
\*   opens        whether the format library can open the file
\*   converts     whether the soffice conversion of a legacy format succeeds
\*   pandoc       what pandoc prints for the file ("" when it fails)
\*   headers      subject, from, to, date of an email ("" when absent)
\*   attachments  the number of attachments of an email
Truthy(x) == x # Omitted /\ x # 0

RECURSIVE JoinFrom(_, _, _)
JoinFrom(parts, k, sep) ==
    IF k > Len(parts) THEN <<>>
    ELSE IF k = Len(parts) THEN parts[k]
    ELSE parts[k] \o sep \o JoinFrom(parts, k + 1, sep)

\* sep.join(parts)
Join(parts, sep) == JoinFrom(parts, 1, sep)

DigitChars == <<"1", "2", "3", "4", "5", "6", "7", "8", "9">>
Digit(n) == <<DigitChars[n]>>

\* the effective parameters of one chunk_text call, as the call computes them
ChunkTextCallOf(chunk_size, chunk_overlap) ==
    [chunk_size |-> OrDefault(chunk_size, default_chunk_size),
     chunk_overlap |-> OrDefault(chunk_overlap, default_chunk_overlap)]

\* ParserResult; chunk_text_calls records the parameters each chunk_text
\* call of the extraction ran with
ParserResultFailure(error, warnings) ==
    [success |-> FALSE, metadata |-> Absent, content |-> Absent,
     error |-> error, warnings |-> warnings, chunk_text_calls |-> <<>>]

ParserResultSuccess(metadata, content, warnings, calls) ==
    [success |-> TRUE, metadata |-> Some(metadata), content |-> Some(content),
     error |-> <<>>, warnings |-> warnings, chunk_text_calls |-> calls]

DocumentMetadata(filename, file_type, data) ==
    [filename |-> filename, file_type |-> file_type,
     file_hash |-> compute_file_hash(data)]

DocumentContent(full_text, chunks, tables) ==
    [full_text |-> full_text, chunks |-> chunks, tables |-> tables]

NoExtraction == [full_text |-> <<>>, chunks |-> <<>>, tables |-> <<>>, calls |-> <<>>]

\* chunks = self.chunk_text(full_text, "chunk", chunk_size, chunk_overlap)
\* when the extractor's re-chunk condition holds
ReChunk(rechunk, full_text, chunks, tables, source_prefix, chunk_size, chunk_overlap) ==
    IF rechunk
    THEN [full_text |-> full_text,
          chunks |-> chunk_text(full_text, source_prefix, chunk_size, chunk_overlap),
          tables |-> tables,
          calls |-> <<ChunkTextCallOf(chunk_size, chunk_overlap)>>]
    ELSE [full_text |-> full_text, chunks |-> chunks, tables |-> tables,
          calls |-> <<>>]

\* ---- pages and slides: one chunk per unit that has text, numbered by the
\* unit's position (chunk_index = page_num - 1, slide_num - 1)
RECURSIVE PositionChunks(_, _, _, _)
PositionChunks(units, k, kind, acc) ==
    IF k > Len(units) THEN acc
    ELSE IF Strip(units[k]) # <<>>
         THEN PositionChunks(units, k + 1, kind,
                  Append(acc, [content |-> units[k], source |-> <<kind, k>>,
                               chunk_index |-> k - 1, heading |-> NoHeading,
                               page_number |-> k]))
         ELSE PositionChunks(units, k + 1, kind, acc)

\* all_text: "[Page n]\n" + text for each unit that has text
RECURSIVE LabelledTexts(_, _, _, _)
LabelledTexts(units, k, label, acc) ==
    IF k > Len(units) THEN acc
    ELSE IF Strip(units[k]) # <<>>
         THEN LabelledTexts(units, k + 1, label,
                  Append(acc, label \o Digit(k) \o <<"]", "\n">> \o units[k]))
         ELSE LabelledTexts(units, k + 1, label, acc)

PageLabel == <<"[", "P", "a", "g", "e", " ">>
SlideLabel == <<"[", "S", "l", "i", "d", "e", " ">>
SheetLabel == <<"[", "S", "h", "e", "e", "t", ":", " ">>
HeadersLabel == <<"H", "e", "a", "d", "e", "r", "s", ":", " ">>
ParagraphSep == <<"\n", "\n">>

\* PdfParser._extract_with_pdfplumber
_extract_with_pdfplumber(data, chunk_size, chunk_overlap) ==
    IF ~data.opens THEN NoExtraction
    ELSE ReChunk(Truthy(chunk_size),
                 Join(LabelledTexts(data.units, 1, PageLabel, <<>>), ParagraphSep),
                 PositionChunks(data.units, 1, "page", <<>>),
                 data.tables, "chunk", chunk_size, chunk_overlap)

\* PdfParser._extract_with_pymupdf: the same pages, no tables
_extract_with_pymupdf(data, chunk_size, chunk_overlap) ==
    IF ~data.opens THEN NoExtraction
    ELSE ReChunk(Truthy(chunk_size),
                 Join(LabelledTexts(data.units, 1, PageLabel, <<>>), ParagraphSep),
                 PositionChunks(data.units, 1, "page", <<>>),
                 <<>>, "chunk", chunk_size, chunk_overlap)

PdfParser_parse_content(data, filename, chunk_size, chunk_overlap) ==
    LET first == _extract_with_pdfplumber(data, chunk_size, chunk_overlap)
        second == _extract_with_pymupdf(data, chunk_size, chunk_overlap)
        e == IF first.full_text = <<>> THEN second ELSE first
        calls == IF first.full_text = <<>> THEN first.calls \o second.calls
                 ELSE first.calls
        warnings == IF e.full_text = <<>>
                    THEN <<"Could not extract text from PDF">> ELSE <<>>
    IN  ParserResultSuccess(DocumentMetadata(filename, "pdf", data),
                            DocumentContent(e.full_text, e.chunks, e.tables),
                            warnings, calls)

\* PptxParser._extract_with_pptx: re-chunked only when some slide is longer
\* than chunk_size
_extract_with_pptx(data, chunk_size, chunk_overlap) ==
    IF ~data.opens THEN NoExtraction
    ELSE LET chunks == PositionChunks(data.units, 1, "slide", <<>>)
         IN  ReChunk(Truthy(chunk_size)
                        /\ \E k \in DOMAIN chunks : Len(chunks[k].content) > chunk_size,
                     Join(LabelledTexts(data.units, 1, SlideLabel, <<>>), ParagraphSep),
                     chunks, data.tables, "chunk", chunk_size, chunk_overlap)

\* variant: a failed conversion only adds a warning, as for .doc and .xls
PptxParser_parse_content_lenient(data, filename, chunk_size, chunk_overlap) ==
    LET file_type == detect_file_type(filename)
        e == _extract_with_pptx(data, chunk_size, chunk_overlap)
    IN  ParserResultSuccess(DocumentMetadata(filename, file_type, data),
                            DocumentContent(e.full_text, e.chunks, e.tables),
                            IF file_type = "ppt" /\ ~data.converts
                            THEN <<"Could not convert .ppt to .pptx">> ELSE <<>>,
                            e.calls)

\* _convert_ppt_to_pptx gives None when soffice is missing, times out, exits
\* with an error or leaves no output: data.converts is FALSE
PptxParser_parse_content(data, filename, chunk_size, chunk_overlap) ==
    LET file_type == detect_file_type(filename)
        e == _extract_with_pptx(data, chunk_size, chunk_overlap)
    IN  IF file_type = "ppt" /\ ~data.converts
        THEN ParserResultFailure(<<"Cannot parse .ppt format without LibreOffice">>,
                                 <<"Could not convert .ppt to .pptx">>)
        ELSE ParserResultSuccess(DocumentMetadata(filename, file_type, data),
                                 DocumentContent(e.full_text, e.chunks, e.tables),
                                 <<>>, e.calls)

\* ---- paragraphs and sheets: one chunk per unit that has text, numbered by
\* a counter chunk_idx
RECURSIVE CountedChunks(_, _, _, _, _)
CountedChunks(units, k, kind, texts, acc) ==
    IF k > Len(units) THEN acc
    ELSE IF units[k] # <<>>
         THEN CountedChunks(units, k + 1, kind, texts,
                  Append(acc, [content |-> texts[k], source |-> <<kind, Len(acc)>>,
                               chunk_index |-> Len(acc), heading |-> NoHeading,
                               page_number |-> Omitted]))
         ELSE CountedChunks(units, k + 1, kind, texts, acc)

NonEmpty(units) == SelectSeq(units, LAMBDA u : u # <<>>)

\* DocxParser._extract_with_docx; a .doc that was not converted cannot be
\* opened by python-docx
_extract_with_docx(data, file_type, chunk_size, chunk_overlap) ==
    IF ~data.opens \/ (file_type = "doc" /\ ~data.converts) THEN NoExtraction
    ELSE ReChunk(Truthy(chunk_size),
                 Join(NonEmpty(data.units), ParagraphSep),
                 CountedChunks(data.units, 1, "paragraph", data.units, <<>>),
                 data.tables, "chunk", chunk_size, chunk_overlap)

DocxParser_parse_content(data, filename, chunk_size, chunk_overlap) ==
    LET file_type == detect_file_type(filename)
        e == _extract_with_docx(data, file_type, chunk_size, chunk_overlap)
        fallback == e.full_text = <<>>
        full_text == IF fallback THEN Strip(data.pandoc) ELSE e.full_text
        chunks == IF fallback
                  THEN chunk_text(full_text, "paragraph", chunk_size, chunk_overlap)
                  ELSE e.chunks
        calls == IF fallback
                 THEN e.calls \o <<ChunkTextCallOf(chunk_size, chunk_overlap)>>
                 ELSE e.calls
        warnings == IF file_type = "doc" /\ ~data.converts
                    THEN <<"Could not convert .doc to .docx, using fallback extraction">>
                    ELSE <<>>
    IN  ParserResultSuccess(DocumentMetadata(filename, file_type, data),
                            DocumentContent(full_text, chunks, e.tables),
                            warnings, calls)

\* the text of sheet k whose single row holds the single cell unit
SheetTexts(units) ==
    [k \in DOMAIN units |->
        SheetLabel \o Digit(k) \o <<"]", "\n">> \o HeadersLabel \o units[k]]

\* XlsxParser._extract_with_openpyxl; pandas, the fallback, finds nothing in
\* a workbook in which openpyxl finds nothing
_extract_with_openpyxl(data, file_type, chunk_size, chunk_overlap) ==
    IF ~data.opens THEN NoExtraction
    ELSE LET chunks == CountedChunks(data.units, 1, "sheet", SheetTexts(data.units), <<>>)
         IN  ReChunk(Truthy(chunk_size),
                     Join([k \in DOMAIN chunks |-> chunks[k].content], ParagraphSep),
                     chunks,
                     [k \in DOMAIN chunks |-> <<"sheet", chunks[k].content>>],
                     "chunk", chunk_size, chunk_overlap)

\* XlsxParser._parse_csv on a file of one row with one cell
_parse_csv(data, filename, chunk_size, chunk_overlap) ==
    IF data.decoded = <<>>
    THEN ParserResultFailure(<<"Empty CSV file">>, <<>>)
    ELSE LET full_text == HeadersLabel \o data.decoded
         IN  ParserResultSuccess(
                 DocumentMetadata(filename, "csv", data),
                 DocumentContent(full_text,
                                 chunk_text(full_text, "csv_chunk", chunk_size, chunk_overlap),
                                 <<<<"data", data.decoded>>>>),
                 <<>>, <<ChunkTextCallOf(chunk_size, chunk_overlap)>>)

XlsxParser_parse_content(data, filename, chunk_size, chunk_overlap) ==
    LET file_type == detect_file_type(filename)
        e == _extract_with_openpyxl(data, file_type, chunk_size, chunk_overlap)
        calls == IF e.full_text = <<>> /\ data.opens /\ Truthy(chunk_size)
                 THEN e.calls \o e.calls ELSE e.calls
        warnings == IF file_type = "xls" /\ ~data.converts
                    THEN <<"Could not convert .xls to .xlsx">> ELSE <<>>
    IN  IF file_type = "csv"
        THEN _parse_csv(data, filename, chunk_size, chunk_overlap)
        ELSE ParserResultSuccess(DocumentMetadata(filename, file_type, data),
                                 DocumentContent(e.full_text, e.chunks, e.tables),
                                 warnings, calls)

\* TextParser._parse_content: plain text is stripped; for the markup types
\* decoded stands for the text their extraction yields
TextParser_parse_content(data, filename, chunk_size, chunk_overlap) ==
    LET file_type == detect_file_type(filename)
        full_text == IF file_type \in {"html", "json", "xml", "rtf", "md"}
                     THEN data.decoded ELSE Strip(data.decoded)
    IN  ParserResultSuccess(
            DocumentMetadata(filename, file_type, data),
            DocumentContent(full_text,
                            chunk_text(full_text, "text", chunk_size, chunk_overlap),
                            <<>>),
            <<>>, <<ChunkTextCallOf(chunk_size, chunk_overlap)>>)

\* ---- email
HeaderLine(label, value) == IF value = <<>> THEN <<>> ELSE <<<<label>> \o value>>

\* EmlParser._create_email_chunks
_create_email_chunks(headers, body_text, attachments, chunk_size, chunk_overlap) ==
    LET header_parts == HeaderLine("Subject: ", headers.subject)
                        \o HeaderLine("From: ", headers.from)
                        \o HeaderLine("To: ", headers.to)
                        \o HeaderLine("Date: ", headers.date)
        header_chunks ==
            IF header_parts # <<>>
            THEN <<[content |-> Join(header_parts, <<"\n">>), source |-> <<"email_headers">>,
                    chunk_index |-> 0, heading |-> <<"Email Headers">>,
                    page_number |-> Omitted]>>
            ELSE <<>>
        body_chunks ==
            IF body_text # <<>>
            THEN chunk_text(body_text, "email_body", chunk_size, chunk_overlap)
            ELSE <<>>
        renumbered ==
            [k \in DOMAIN body_chunks |->
                [body_chunks[k] EXCEPT !.chunk_index = Len(header_chunks) + k - 1,
                                       !.heading = headers.subject]]
        attachment_chunks ==
            IF attachments > 0
            THEN <<[content |-> <<"Attachments:", "\n">> \o Digit(attachments),
                    source |-> <<"email_attachments">>,
                    chunk_index |-> Len(header_chunks) + Len(body_chunks),
                    heading |-> <<"Attachments">>, page_number |-> Omitted]>>
            ELSE <<>>
    IN  header_chunks \o renumbered \o attachment_chunks

\* EmlParser._build_full_text: the fixed section titles are always there
_build_full_text(headers, body_text, attachments) ==
    <<"=== EMAIL HEADERS ===", "\n">>
        \o Join(HeaderLine("From: ", headers.from) \o HeaderLine("To: ", headers.to)
                \o HeaderLine("Date: ", headers.date)
                \o HeaderLine("Subject: ", headers.subject), <<"\n">>)
        \o <<"\n", "=== EMAIL BODY ===", "\n">>
        \o (IF body_text # <<>> THEN body_text ELSE <<"[No text content]">>)
        \o (IF attachments > 0 THEN <<"\n", "=== ATTACHMENTS ===">> ELSE <<>>)

EmlParser_parse_content(data, filename, chunk_size, chunk_overlap) ==
    IF ~data.opens
    THEN ParserResultFailure(<<"Failed to parse EML: ">>, <<>>)
    ELSE ParserResultSuccess(
             DocumentMetadata(filename, "eml", data),
             DocumentContent(_build_full_text(data.headers, data.decoded, data.attachments),
                             _create_email_chunks(data.headers, data.decoded,
                                                  data.attachments, chunk_size, chunk_overlap),
                             <<>>),
             <<>>,
             IF data.decoded # <<>>
             THEN <<ChunkTextCallOf(chunk_size, chunk_overlap)>> ELSE <<>>)

\* parser.parse_bytes: file_data.read(), then the class's _parse_content
parse_bytes(parser, data, filename, chunk_size, chunk_overlap) ==
    CASE parser = "DocxParser" -> DocxParser_parse_content(data, filename, chunk_size, chunk_overlap)
      [] parser = "PptxParser" -> PptxParser_parse_content(data, filename, chunk_size, chunk_overlap)
      [] parser = "XlsxParser" -> XlsxParser_parse_content(data, filename, chunk_size, chunk_overlap)
      [] parser = "TextParser" -> TextParser_parse_content(data, filename, chunk_size, chunk_overlap)
      [] parser = "PdfParser" -> PdfParser_parse_content(data, filename, chunk_size, chunk_overlap)
      [] parser = "EmlParser" -> EmlParser_parse_content(data, filename, chunk_size, chunk_overlap)

\* ---- the temporary files of the office extractors' _parse_content ----
LegacyTypes == {"doc", "ppt", "xls"}

\* Path.with_suffix(".docx" / ".pptx" / ".xlsx") for the legacy types
with_modern_suffix(file_type) ==
    CASE file_type = "doc" -> "docx"
      [] file_type = "ppt" -> "pptx"
      [] file_type = "xls" -> "xlsx"
      [] OTHER -> file_type

\* A temporary file is named by its suffix: the call's NamedTemporaryFile
\* and the output soffice writes next to it share the stem.
\*   on_disk   the original-bytes file, and the converted file when the
\*             conversion of a legacy type succeeded
\*   tmp_path  the path the variable holds when the finally block runs
\*   unlinked  what the finally block removes
office_temp_files_left(file_type, data) ==
    LET original == file_type
        converted == with_modern_suffix(file_type)
        did_convert == file_type \in LegacyTypes /\ data.converts
        on_disk == {original} \cup (IF did_convert THEN {converted} ELSE {})
        tmp_path == IF did_convert THEN converted ELSE original
        unlinked == {tmp_path} \cup
                    (IF file_type \in LegacyTypes
                     THEN {with_modern_suffix(tmp_path)} ELSE {})
    IN  on_disk \ unlinked

\* the temporary files a parse_bytes call leaves behind; the CSV branch of
\* the spreadsheet extractor and the extractors of other classes are not
\* followed here
temp_files_left(parser, file_type, data) ==
    IF parser \in {"DocxParser", "PptxParser", "XlsxParser"} /\ file_type # "csv"
    THEN office_temp_files_left(file_type, data)
    ELSE {}

\* ========================================================== parse_upload
service_default_chunk_size == 1000
service_default_chunk_overlap == 200

\* the bounds the upload route puts on its form fields
chunk_size_ge == 100
chunk_size_le == 10000
chunk_overlap_ge == 0
chunk_overlap_le == 1000

\* DocumentParserService.parse_upload: the result, and the calls it made
parse_upload(data, filename, chunk_size, chunk_overlap) ==
    LET parser == get_parser_for_file(filename)
    IN  IF parser = None
        THEN [result |-> ParserResultFailure(
                             <<"Unsupported file type: ", detect_file_type(filename)>>, <<>>),
              calls |-> <<>>,
              temp_files |-> {}]
        ELSE [result |-> parse_bytes(parser, data, filename,
                             OrDefault(chunk_size, service_default_chunk_size),
                             OrDefault(chunk_overlap, service_default_chunk_overlap)),
              calls |-> <<<<"parse_bytes", parser>>, <<"file_data.read">>>>,
              temp_files |-> temp_files_left(parser, detect_file_type(filename), data)]

\* ---- the specification of one parse_upload call on bounded inputs ----
MaxUnits == 3

Filenames ==
    {<<"notes", ".", "txt">>, <<"NOTES", ".", "TXT">>, <<"a", ".", "tar", ".", "md">>,
     <<"paper", ".", "Pdf">>, <<"deck", ".", "pptx">>, <<"old", ".", "ppt">>,
     <<"letter", ".", "docx">>, <<"old", ".", "doc">>, <<"book", ".", "xlsx">>,
     <<"old", ".", "xls">>,
     <<"data", ".", "csv">>, <<"mail", ".", "eml">>,
     <<"mail", ".", "MSG">>, <<"box", ".", "pst">>, <<"scan", ".", "png">>,
     <<"text", ".", "odt">>, <<"archive", ".", "xyz">>, <<"README">>,
     <<".", "txt">>, <<"dir", ".", "pdf", "/", "plain">>, <<"notes", ".">>}

SmallTexts == {<<>>, <<" ">>, <<"a", ".">>, <<"a", ".", " ", "a", ".">>}
UnitTexts == {<<>>, <<"a", ".">>, <<"a", ".", " ", "a", "a", ".">>}
UnitLists == UNION {[1..n -> UnitTexts] : n \in 0..MaxUnits}
HeaderValues == {<<>>, <<"x">>}
NoHeaders == [subject |-> <<>>, from |-> <<>>, to |-> <<>>, date |-> <<>>]

EmptyData ==
    [decoded |-> <<>>, units |-> <<>>, tables |-> <<>>, opens |-> TRUE,
     converts |-> TRUE, pandoc |-> <<>>, headers |-> NoHeaders, attachments |-> 0]

\* the files of each type that the specification draws
FileDataFor(file_type) ==
    CASE file_type \in {"pdf", "pptx", "xlsx"} ->
           {[EmptyData EXCEPT !.units = u, !.opens = o] :
              u \in UnitLists, o \in BOOLEAN}
      [] file_type \in {"ppt", "xls"} ->
           {[EmptyData EXCEPT !.units = u, !.converts = c] :
              u \in UnitLists, c \in BOOLEAN}
      [] file_type \in {"docx", "doc"} ->
           {[EmptyData EXCEPT !.units = u, !.converts = c, !.pandoc = t,
                              !.tables = IF u = <<>> THEN <<>> ELSE <<"table">>] :
              u \in UnitLists, c \in BOOLEAN, t \in {<<>>, <<"a", ".">>}}
      [] file_type = "eml" ->
           {[EmptyData EXCEPT !.headers = [subject |-> h1, from |-> h2,
                                           to |-> <<>>, date |-> h3],
                              !.decoded = t, !.attachments = n, !.opens = o] :
              h1 \in HeaderValues, h2 \in HeaderValues, h3 \in HeaderValues,
              t \in SmallTexts, n \in 0..1, o \in BOOLEAN}
      [] OTHER ->
           {[EmptyData EXCEPT !.decoded = t] : t \in SmallTexts}

ChunkSizeArgs == {Omitted, 3, 100}
ChunkOverlapArgs == {Omitted, 0, 2, 50}

InitParse ==
    /\ InitStore
    /\ s3_service = None
    /\ IdleChunk
    /\ IdleBatch
    /\ IdleOthers
    /\ pu_filename \in Filenames
    /\ pu_data \in FileDataFor(detect_file_type(pu_filename))
    /\ pu_chunk_size \in ChunkSizeArgs
    /\ pu_chunk_overlap \in ChunkOverlapArgs
    /\ pu_result = {}
    /\ pu_calls = <<>>
    /\ pu_done = FALSE
    /\ pu_temp_files = {}

ParseUploadCall ==
    /\ ~pu_done
    /\ LET r == parse_upload(pu_data, pu_filename, pu_chunk_size, pu_chunk_overlap)
       IN  /\ pu_result' = {r.result}
           /\ pu_calls' = r.calls
           /\ pu_temp_files' = r.temp_files
    /\ pu_done' = TRUE
    /\ UNCHANGED <<storeVars, otherVars, chunkVars, batchVars, pu_filename, pu_data,
                   pu_chunk_size, pu_chunk_overlap>>

NextParse == ParseUploadCall

SpecParse == InitParse /\ [][NextParse]_vars

\* ================================================ POST /documents/upload
\* The handler's loop over the request's files.  File number p of the
\* request is stored by store_document call p; an upload kind stands for a
\* file name together with its bytes.
BatchFiles == {"report", "corrupt", "image"}

\* parser.is_supported(filename)
upload_is_supported(b) == b # "image"

DocumentUploadResult(success, document_id, filename, chunk_count, message) ==
    [success |-> success, document_id |-> document_id, filename |-> filename,
     chunk_count |-> chunk_count, message |-> message]

AtFile(p) == b_response = {} /\ b_next = p /\ p <= Len(b_files)

NextFile(p, r) ==
    /\ b_results' = Append(b_results, r)
    /\ b_next' = p + 1
    /\ UNCHANGED <<storeVars, otherVars, chunkVars, parseVars, b_files, b_inv, b_response>>

\* if not parser.is_supported(filename): append a failed result, continue
BatchUnsupported(p) ==
    /\ AtFile(p)
    /\ pc[p] = "idle"
    /\ ~upload_is_supported(b_files[p])
    /\ NextFile(p, DocumentUploadResult(FALSE, NoId, b_files[p], 0,
                                        "Unsupported file type"))

\* doc_id = await storage.store_document(...): the call starts
BatchStore(p) ==
    /\ AtFile(p)
    /\ upload_is_supported(b_files[p])
    /\ ParseStep(p, {b_files[p]}, {b_inv})

\* if doc_id: chunks = await storage.get_document_chunks(doc_id)
BatchStored(p) ==
    /\ AtFile(p)
    /\ pc[p] = "stored"
    /\ NextFile(p, DocumentUploadResult(TRUE, result[p], b_files[p],
                                        Cardinality(get_document_chunks(result[p])),
                                        "Document processed successfully"))

\* get_document_chunks raises: caught by the same except
BatchChunksRaise(p) ==
    /\ AtFile(p)
    /\ pc[p] = "stored"
    /\ NextFile(p, DocumentUploadResult(FALSE, NoId, b_files[p], 0, "str(e)"))

\* else: store_document returned None
BatchNone(p) ==
    /\ AtFile(p)
    /\ pc[p] = "returned_none"
    /\ NextFile(p, DocumentUploadResult(FALSE, NoId, b_files[p], 0,
                                        "Failed to process document"))

\* variant: the loop has no except clause, the exception ends the request
BatchRaisedAborts(p) ==
    /\ AtFile(p)
    /\ pc[p] = "raised"
    /\ b_response' = {[success |-> FALSE, results |-> <<>>, total |-> 0,
                       succeeded |-> 0, failed |-> 0]}
    /\ UNCHANGED <<storeVars, otherVars, chunkVars, parseVars, b_files, b_inv, b_next, b_results>>

\* except Exception as e: append a failed result
BatchRaised(p) ==
    /\ AtFile(p)
    /\ pc[p] = "raised"
    /\ NextFile(p, DocumentUploadResult(FALSE, NoId, b_files[p], 0, "str(e)"))

Succeeded(results) == Cardinality({i \in DOMAIN results : results[i].success})

\* return DocumentUploadBatchResponse(...)
BatchRespond ==
    /\ b_response = {}
    /\ b_next = Len(b_files) + 1
    /\ b_response' = {[success |-> Succeeded(b_results) = Len(b_results),
                       results |-> b_results,
                       total |-> Len(b_results),
                       succeeded |-> Succeeded(b_results),
                       failed |-> Len(b_results) - Succeeded(b_results)]}
    /\ UNCHANGED <<storeVars, otherVars, chunkVars, parseVars, b_files, b_inv, b_next, b_results>>

InitBatch ==
    /\ InitStore
    /\ s3_service = None
    /\ IdleChunk
    /\ IdleParse
    /\ IdleOthers
    /\ b_files \in UNION {[1..n -> BatchFiles] : n \in 1..NumUploads}
    /\ b_inv \in Investigations
    /\ b_next = 1
    /\ b_results = <<>>
    /\ b_response = {}

NextBatch ==
    \/ \E p \in Uploads : BatchUnsupported(p)
    \/ \E p \in Uploads : BatchStore(p)
    \/ \E p \in Uploads : StoreSteps(p)
    \/ \E p \in Uploads : BatchStored(p)
    \/ \E p \in Uploads : BatchChunksRaise(p)
    \/ \E p \in Uploads : BatchNone(p)
    \/ \E p \in Uploads : BatchRaised(p)
    \/ BatchRespond

SpecBatch == InitBatch /\ [][NextBatch]_vars

\* ======================================================== ParserRegistry
\* One registry object: _parsers is a dict, modelled as a function whose
\* domain is the set of keys. register_calls lists every register call made
\* on the object, those of the constructor included.
MaxRegisterCalls == 3

\* the tags and extractors later register calls are made with
RegisterTags == {"pdf", "csv", "png", "unknown"}
RegisterExtractors == {"TextParser", "PdfParser", "OcrParser"}

\* variant: a tag that has an extractor keeps it (dict.setdefault)
ParserRegistry_register_setdefault(parsers, file_type, parser) ==
    [t \in DOMAIN parsers \cup {file_type} |->
        IF t \in DOMAIN parsers THEN parsers[t] ELSE parser]

\* self._parsers[file_type] = parser
ParserRegistry_register(parsers, file_type, parser) ==
    [t \in DOMAIN parsers \cup {file_type} |->
        IF t = file_type THEN parser ELSE parsers[t]]

\* the register calls of _register_default_parsers, in order
RECURSIVE DefaultRegisterCalls(_, _)
DefaultRegisterCalls(k, j) ==
    IF k > Len(DefaultParsers) THEN <<>>
    ELSE IF j > Len(supported_types(DefaultParsers[k]))
         THEN DefaultRegisterCalls(k + 1, 1)
         ELSE <<[file_type |-> supported_types(DefaultParsers[k])[j],
                 parser |-> DefaultParsers[k]]>>
              \o DefaultRegisterCalls(k, j + 1)

RECURSIVE ApplyRegisterCalls(_, _, _)
ApplyRegisterCalls(parsers, calls, k) ==
    IF k > Len(calls) THEN parsers
    ELSE ApplyRegisterCalls(
             ParserRegistry_register(parsers, calls[k].file_type, calls[k].parser),
             calls, k + 1)

\* __init__: an empty dict, then the default extractors
ParserRegistry_init == ApplyRegisterCalls(<<>>, DefaultRegisterCalls(1, 1), 1)

\* self._parsers.get(file_type)
ParserRegistry_get_parser(file_type) ==
    IF file_type \in DOMAIN _parsers THEN _parsers[file_type] ELSE None

\* file_type in self._parsers
ParserRegistry_is_supported(file_type) == file_type \in DOMAIN _parsers

\* list(self._parsers.keys()), as a set
ParserRegistry_supported_types == DOMAIN _parsers

InitRegistry ==
    /\ IdleIngestion
    /\ IdleSearch
    /\ IdleText
    /\ IdlePool
    /\ IdleChat
    /\ _parsers = ParserRegistry_init
    /\ register_calls = DefaultRegisterCalls(1, 1)

Register(file_type, parser) ==
    /\ Len(register_calls) < Len(DefaultRegisterCalls(1, 1)) + MaxRegisterCalls
    /\ _parsers' = ParserRegistry_register(_parsers, file_type, parser)
    /\ register_calls' = Append(register_calls,
                                [file_type |-> file_type, parser |-> parser])
    /\ UNCHANGED <<storeVars, chunkVars, parseVars, batchVars, searchVars, textVars,
                   poolVars, chatVars>>

NextRegistry ==
    \E file_type \in RegisterTags, parser \in RegisterExtractors :
        Register(file_type, parser)

SpecRegistry == InitRegistry /\ [][NextRegistry]_vars

\* ==================================================== build_from_search
\* Similarities are hundredths (50 is 0.50).  A document row is what
\* search_document_chunks returns for one chunk; an email row is one row of
\* the email query.  source_id of a chunk is the position of its row in its
\* result set.
default_max_chunks == 10

MaxDocRows == 3
MaxEmailRows == 2

Similarities == {0, 50, 90}
SearchDocuments == {1, 2}

ContextChunk(content, source_type, source_id, source_name, relevance_score) ==
    [content |-> content, source_type |-> source_type, source_id |-> source_id,
     source_name |-> source_name, relevance_score |-> relevance_score]

\* key=lambda c: c.relevance_score or 0
SortKey(c) ==
    IF c.relevance_score = Absent THEN 0
    ELSE CHOOSE x \in c.relevance_score : TRUE

RemoveAt(s, i) == SubSeq(s, 1, i - 1) \o SubSeq(s, i + 1, Len(s))

\* variant: a sort that puts the later of two equal chunks first
RECURSIVE SortedByRelevanceUnstable(_)
SortedByRelevanceUnstable(chunks) ==
    IF chunks = <<>> THEN <<>>
    ELSE LET best == CHOOSE i \in DOMAIN chunks :
                       \A j \in DOMAIN chunks :
                         \/ SortKey(chunks[j]) < SortKey(chunks[i])
                         \/ (SortKey(chunks[j]) = SortKey(chunks[i]) /\ j <= i)
         IN  <<chunks[best]>> \o SortedByRelevanceUnstable(RemoveAt(chunks, best))

\* chunks.sort(key=..., reverse=True): list.sort is stable, also in reverse
RECURSIVE SortedByRelevance(_)
SortedByRelevance(chunks) ==
    IF chunks = <<>> THEN <<>>
    ELSE LET best == CHOOSE i \in DOMAIN chunks :
                       \A j \in DOMAIN chunks :
                         \/ SortKey(chunks[j]) < SortKey(chunks[i])
                         \/ (SortKey(chunks[j]) = SortKey(chunks[i]) /\ i <= j)
         IN  <<chunks[best]>> \o SortedByRelevance(RemoveAt(chunks, best))

\* s[:n] for n >= 0
Take(s, n) == SubSeq(s, 1, IF n < Len(s) THEN n ELSE Len(s))

\* the loop over doc_results: one chunk per row
DocumentChunks(doc_results) ==
    [i \in DOMAIN doc_results |->
        ContextChunk(doc_results[i].content, "document", i,
                     <<"d">>, Some(doc_results[i].similarity))]

\* sources: the documents of the rows, each once, in order of appearance
RECURSIVE UniqueSources(_, _)
UniqueSources(doc_results, k) ==
    IF k = 0 THEN <<>>
    ELSE LET before == UniqueSources(doc_results, k - 1)
         IN  IF \E i \in DOMAIN before : before[i] = doc_results[k].document_id
             THEN before
             ELSE Append(before, doc_results[k].document_id)

\* _search_emails: ORDER BY distance LIMIT limit, one chunk per row; an
\* exception of the query gives the empty list
_search_emails(email_matches, limit) ==
    LET rows == Take(email_matches, limit)
    IN  [i \in DOMAIN rows |->
            ContextChunk(rows[i].content, "email", i, <<"e">>,
                         Some(rows[i].similarity))]

RECURSIVE TotalChars(_, _)
TotalChars(chunks, k) ==
    IF k = 0 THEN 0 ELSE Len(chunks[k].content) + TotalChars(chunks, k - 1)

BuiltContext(chunks, total_tokens_estimate, sources_used) ==
    [chunks |-> chunks, total_tokens_estimate |-> total_tokens_estimate,
     sources_used |-> sources_used]

build_from_search(doc_results, email_matches, max_chunks_arg, include_emails) ==
    LET max_chunks == OrDefault(max_chunks_arg, default_max_chunks)
        found == DocumentChunks(doc_results)
                 \o (IF include_emails
                     THEN _search_emails(email_matches, max_chunks \div 2)
                     ELSE <<>>)
        chunks == Take(SortedByRelevance(found), max_chunks)
    IN  BuiltContext(chunks, TotalChars(chunks, Len(chunks)) \div 4,
                     UniqueSources(doc_results, Len(doc_results)))

\* ---- the specification of one build_from_search call ----
DocRows ==
    {[similarity |-> s, document_id |-> d, content |-> <<"x", "x">>] :
       s \in Similarities, d \in SearchDocuments}
EmailRows == {[similarity |-> s, content |-> <<"y">>] : s \in Similarities}

MaxChunksArgs == {Omitted, 0, 1, 2, 3}

InitSearch ==
    /\ IdleIngestion
    /\ IdleRegistry
    /\ IdleText
    /\ IdlePool
    /\ IdleChat
    /\ bc_doc_results \in UNION {[1..n -> DocRows] : n \in 0..MaxDocRows}
    /\ bc_email_matches \in
         {m \in UNION {[1..n -> EmailRows] : n \in 0..MaxEmailRows} :
            \A i \in 1..(Len(m) - 1) : m[i].similarity >= m[i + 1].similarity}
    /\ bc_max_chunks \in MaxChunksArgs
    /\ bc_include_emails \in BOOLEAN
    /\ bc_context = {}
    /\ bc_done = FALSE

BuildFromSearchCall ==
    /\ ~bc_done
    /\ bc_context' = {build_from_search(bc_doc_results, bc_email_matches,
                                        bc_max_chunks, bc_include_emails)}
    /\ bc_done' = TRUE
    /\ UNCHANGED <<storeVars, chunkVars, parseVars, batchVars, registryVars, textVars,
                   poolVars, chatVars,
                   bc_doc_results, bc_email_matches, bc_max_chunks, bc_include_emails>>

NextSearch == BuildFromSearchCall

SpecSearch == InitSearch /\ [][NextSearch]_vars

\* ==================================================== BuiltContext.to_text
MaxContextChunks == 3

DecimalDigits == <<"0", "1", "2", "3", "4", "5", "6", "7", "8", "9">>

\* f"{score:.2f}" for a score given in hundredths, 0 <= score < 1000
Format2f(score) ==
    <<DecimalDigits[(score \div 100) + 1], ".",
      DecimalDigits[((score \div 10) % 10) + 1], DecimalDigits[(score % 10) + 1]>>

\* "[Source: name]", followed by " (relevance: 0.50)" when the score is
\* neither None nor 0
ChunkHeader(chunk) ==
    <<"[", "S", "o", "u", "r", "c", "e", ":", " ">> \o chunk.source_name \o <<"]">>
    \o (IF chunk.relevance_score # Absent /\ SortKey(chunk) # 0
        THEN <<" ", "(", "r", "e", "l", "e", "v", "a", "n", "c", "e", ":", " ">>
             \o Format2f(SortKey(chunk)) \o <<")">>
        ELSE <<>>)

\* f"{header}\n{chunk.content}\n"
ChunkText(chunk) == ChunkHeader(chunk) \o <<"\n">> \o chunk.content \o <<"\n">>

\* variant: a chunk over the budget is skipped and the loop goes on
RECURSIVE ToTextPartsSkipping(_, _, _, _, _)
ToTextPartsSkipping(chunks, k, parts, current_chars, max_chars) ==
    IF k > Len(chunks) THEN parts
    ELSE LET chunk_text_k == ChunkText(chunks[k])
         IN  IF Truthy(max_chars) /\ current_chars + Len(chunk_text_k) > max_chars
             THEN ToTextPartsSkipping(chunks, k + 1, parts, current_chars, max_chars)
             ELSE ToTextPartsSkipping(chunks, k + 1, Append(parts, chunk_text_k),
                                      current_chars + Len(chunk_text_k), max_chars)

\* the loop of to_text from chunk k on: break at the first chunk that does
\* not fit
RECURSIVE ToTextParts(_, _, _, _, _)
ToTextParts(chunks, k, parts, current_chars, max_chars) ==
    IF k > Len(chunks) THEN parts
    ELSE LET chunk_text_k == ChunkText(chunks[k])
         IN  IF Truthy(max_chars) /\ current_chars + Len(chunk_text_k) > max_chars
             THEN parts
             ELSE ToTextParts(chunks, k + 1, Append(parts, chunk_text_k),
                              current_chars + Len(chunk_text_k), max_chars)

PartSeparator == <<"\n", "-", "-", "-", "\n">>

\* "\n---\n".join(parts)
to_text(chunks, max_chars) ==
    Join(ToTextParts(chunks, 1, <<>>, 0, max_chars), PartSeparator)

\* ---- the specification of one to_text call ----
\* chunks as the builders make them: with a score (search), without
\* (documents by id), with the score 0
TextChunks ==
    {ContextChunk(content, "document", 1, <<"a">>, score) :
       content \in {<<>>, <<"x">>, <<"x", "x", "x", "x">>},
       score \in {Absent, Some(0), Some(50)}}

MaxCharsArgs == {Omitted, 0, 13, 14, 30, 31, 45}

InitText ==
    /\ IdleIngestion
    /\ IdleRegistry
    /\ IdleSearch
    /\ IdlePool
    /\ IdleChat
    /\ tt_chunks \in UNION {[1..n -> TextChunks] : n \in 0..MaxContextChunks}
    /\ tt_max_chars \in MaxCharsArgs
    /\ tt_text = <<>>
    /\ tt_done = FALSE

ToTextCall ==
    /\ ~tt_done
    /\ tt_text' = to_text(tt_chunks, tt_max_chars)
    /\ tt_done' = TRUE
    /\ UNCHANGED <<storeVars, chunkVars, parseVars, batchVars, registryVars,
                   searchVars, poolVars, chatVars,
                   tt_chunks, tt_max_chars>>

NextText == ToTextCall

SpecText == InitText /\ [][NextText]_vars

\* ---- the upload request next to concurrent DELETE /documents/{id} requests
NextBatchConcurrent ==
    \/ NextBatch
    \/ \E id \in DocIds : DeleteDocumentRequest(id)

SpecBatchConcurrent == InitBatch /\ [][NextBatchConcurrent]_vars

\* ================================================== core/database.py pool
\* init_pool and get_pool run as coroutines on one event loop: a caller
\* gives up control only at an await that suspends, here the await of
\* asyncpg.create_pool.  get_pool tests _pool, and when it is None awaits
\* init_pool, which tests again without a suspension in between; after
\* create_pool the assignment and the return run without suspension.
PoolCalls == {"init_pool", "get_pool"}

\* the call up to its first suspension: "if _pool is None" fails and the
\* call returns _pool, or it holds and the call awaits create_pool
PoolCheck(c) ==
    /\ pool_pc[c] = "idle"
    /\ \E f \in PoolCalls : pool_call' = [pool_call EXCEPT ![c] = f]
    /\ pool_pc' = [pool_pc EXCEPT ![c] =
                     IF _pool = NoPool THEN "create_pool" ELSE "returned"]
    /\ pool_returned' = [pool_returned EXCEPT ![c] = _pool]
    /\ UNCHANGED <<storeVars, chunkVars, parseVars, batchVars, registryVars,
                   searchVars, textVars, chatVars, _pool, pools_created>>

\* create_pool completes: _pool = <the new pool>; return _pool
PoolCreated(c) ==
    /\ pool_pc[c] = "create_pool"
    /\ pools_created' = pools_created + 1
    /\ _pool' = pools_created + 1
    /\ pool_returned' = [pool_returned EXCEPT ![c] = pools_created + 1]
    /\ pool_pc' = [pool_pc EXCEPT ![c] = "returned"]
    /\ UNCHANGED <<storeVars, chunkVars, parseVars, batchVars, registryVars,
                   searchVars, textVars, chatVars, pool_call>>

InitPool ==
    /\ IdleIngestion
    /\ IdleRegistry
    /\ IdleSearch
    /\ IdleText
    /\ IdleChat
    /\ IdlePool

NextPool ==
    \/ \E c \in PoolCallers : PoolCheck(c)
    \/ \E c \in PoolCallers : PoolCreated(c)

SpecPool == InitPool /\ [][NextPool]_vars

\* ==================================================== build_chat_context
MaxChatDocs == 3
MaxContextItems == 3
MaxRowsPerDoc == 2
MaxChatRows == 4

\* the rows of one document's SELECT ... ORDER BY chunk_index LIMIT $2
LimitedRows(rows_of_doc, limit) == IF rows_of_doc < limit THEN rows_of_doc ELSE limit

RECURSIVE DirectChunks(_, _, _, _)
DirectChunks(document_ids, k, max_chunks_per_doc, chunk_rows) ==
    IF k = 0 THEN <<>>
    ELSE DirectChunks(document_ids, k - 1, max_chunks_per_doc, chunk_rows)
         \o [i \in 1..LimitedRows(chunk_rows[document_ids[k]], max_chunks_per_doc) |->
               ContextChunk(<<"x">>, "document", document_ids[k], <<"d">>, Absent)]

\* "if rows: sources.append(...)", once per entry of document_ids
RECURSIVE DirectSources(_, _, _, _)
DirectSources(document_ids, k, max_chunks_per_doc, chunk_rows) ==
    IF k = 0 THEN <<>>
    ELSE LET before == DirectSources(document_ids, k - 1, max_chunks_per_doc, chunk_rows)
         IN  IF LimitedRows(chunk_rows[document_ids[k]], max_chunks_per_doc) > 0
             THEN Append(before, document_ids[k])
             ELSE before

build_from_document_ids(document_ids, max_chunks_per_doc, chunk_rows) ==
    LET chunks == DirectChunks(document_ids, Len(document_ids),
                               max_chunks_per_doc, chunk_rows)
    IN  BuiltContext(chunks, TotalChars(chunks, Len(chunks)) \div 4,
                     DirectSources(document_ids, Len(document_ids),
                                   max_chunks_per_doc, chunk_rows))

\* variant: every document may use the whole budget
max_chunks_per_doc_undivided(max_context_items, document_ids) ==
    max_context_items

\* max_chunks_per_doc=max_context_items // len(document_ids)
max_chunks_per_doc(max_context_items, document_ids) ==
    max_context_items \div Len(document_ids)

RECURSIVE ChunksInParts(_, _)
ChunksInParts(context_parts, k) ==
    IF k = 0 THEN 0
    ELSE Len(context_parts[k].chunks) + ChunksInParts(context_parts, k - 1)

\* max_context_items - sum(len(c.chunks) for c in context_parts)
search_limit(max_context_items, context_parts) ==
    max_context_items - ChunksInParts(context_parts, Len(context_parts))

RECURSIVE AllChunks(_, _)
AllChunks(context_parts, k) ==
    IF k = 0 THEN <<>>
    ELSE AllChunks(context_parts, k - 1) \o context_parts[k].chunks

RECURSIVE AllSources(_, _)
AllSources(context_parts, k) ==
    IF k = 0 THEN <<>>
    ELSE AllSources(context_parts, k - 1) \o context_parts[k].sources_used

RECURSIVE TokenEstimate(_, _)
TokenEstimate(context_parts, k) ==
    IF k = 0 THEN 0
    ELSE context_parts[k].total_tokens_estimate + TokenEstimate(context_parts, k - 1)

\* "\n\n---\n\n".join(f"[{chunk.source_name}]\n{chunk.content}" ...)
formatted_context(all_chunks) ==
    Join([i \in DOMAIN all_chunks |->
            <<"[">> \o all_chunks[i].source_name \o <<"]", "\n">>
            \o all_chunks[i].content],
         <<"\n", "\n", "-", "-", "-", "\n", "\n">>)

\* the dict build_chat_context returns
ChatResult(context_parts) ==
    LET all_chunks == AllChunks(context_parts, Len(context_parts))
    IN  [context |-> formatted_context(all_chunks),
         sources |-> AllSources(context_parts, Len(context_parts)),
         chunk_count |-> Len(all_chunks),
         token_estimate |-> TokenEstimate(context_parts, Len(context_parts))]

\* "if document_ids:": neither None nor the empty list
HasDocumentIds(document_ids) ==
    document_ids # Absent /\ document_ids # Some(<<>>)

\* what the two searches of build_from_search find
ChatDocResults ==
    {[i \in 1..n |-> [similarity |-> 90, document_id |-> 1, content |-> <<"x", "x">>]] :
       n \in 0..MaxChatRows}
ChatEmailMatches ==
    {[i \in 1..n |-> [similarity |-> 50, content |-> <<"y">>]] : n \in 0..MaxChatRows}

InitChat ==
    /\ IdleIngestion
    /\ IdleRegistry
    /\ IdleSearch
    /\ IdleText
    /\ IdlePool
    /\ cc_document_ids \in
         {Absent} \cup {Some(ids) : ids \in UNION {[1..n -> SearchDocuments] :
                                                   n \in 0..MaxChatDocs}}
    /\ cc_max_context_items \in 0..MaxContextItems
    /\ cc_chunk_rows \in [SearchDocuments -> 0..MaxRowsPerDoc]
    /\ cc_pc = "start"
    /\ cc_context_parts = <<>>
    /\ cc_searched = FALSE
    /\ cc_result = {}

\* "if document_ids: doc_context = await builder.build_from_document_ids(...)"
ChatDocuments ==
    /\ cc_pc = "start"
    /\ cc_context_parts' =
         IF HasDocumentIds(cc_document_ids)
         THEN LET document_ids == CHOOSE ids \in cc_document_ids : TRUE
              IN  <<build_from_document_ids(
                      document_ids,
                      max_chunks_per_doc(cc_max_context_items, document_ids),
                      cc_chunk_rows)>>
         ELSE <<>>
    /\ cc_pc' = "search"
    /\ UNCHANGED <<storeVars, chunkVars, parseVars, batchVars, registryVars,
                   searchVars, textVars, poolVars, cc_document_ids,
                   cc_max_context_items, cc_chunk_rows, cc_searched, cc_result>>

\* "if search_limit > 0:" holds: build_from_search, then combine and return
ChatSearch ==
    /\ cc_pc = "search"
    /\ search_limit(cc_max_context_items, cc_context_parts) > 0
    /\ \E doc_results \in ChatDocResults, email_matches \in ChatEmailMatches :
         LET search_context ==
               build_from_search(doc_results, email_matches,
                                 search_limit(cc_max_context_items, cc_context_parts),
                                 TRUE)
         IN  /\ cc_context_parts' = Append(cc_context_parts, search_context)
             /\ cc_result' = {ChatResult(Append(cc_context_parts, search_context))}
    /\ cc_searched' = TRUE
    /\ cc_pc' = "returned"
    /\ UNCHANGED <<storeVars, chunkVars, parseVars, batchVars, registryVars,
                   searchVars, textVars, poolVars, cc_document_ids,
                   cc_max_context_items, cc_chunk_rows>>

\* "if search_limit > 0:" fails: combine and return
ChatNoSearch ==
    /\ cc_pc = "search"
    /\ ~(search_limit(cc_max_context_items, cc_context_parts) > 0)
    /\ cc_result' = {ChatResult(cc_context_parts)}
    /\ cc_pc' = "returned"
    /\ UNCHANGED <<storeVars, chunkVars, parseVars, batchVars, registryVars,
                   searchVars, textVars, poolVars, cc_document_ids,
                   cc_max_context_items, cc_chunk_rows, cc_context_parts,
                   cc_searched>>

NextChat ==
    \/ ChatDocuments
    \/ ChatSearch
    \/ ChatNoSearch

SpecChat == InitChat /\ [][NextChat]_vars

\* ================================================================ claims
DocumentIds == {d.id : d \in documents}

RowsWithKey(docs, b, i) ==
    {d \in docs : d.file_hash = compute_file_hash(b) /\ d.investigation_id = i}

\* C1: when a store_document call that overlaps no other call commits, the
\* collection holds exactly one document row with that file hash, the one the
\* call created; every chunk row of that content in that collection belongs
\* to it, and the document and chunks of every earlier successful call with
\* the same bytes and collection are gone.
C1_SecondUploadReplaces ==
    [][\A p \in Uploads : TxCommit(p) =>
        /\ RowsWithKey(documents', file[p], inv[p]) = tx[p].documents
        /\ Cardinality(RowsWithKey(documents', file[p], inv[p])) = 1
        /\ \A c \in document_chunks' :
             (/\ c.content[1] = file[p]
              /\ \E d \in documents' :
                   d.id = c.document_id /\ d.investigation_id = inv[p])
             => c.document_id = doc_id[p]
        /\ \A q \in Uploads \ {p} :
             (pc[q] = "stored" /\ SameKey(p, q))
             => /\ \A d \in documents' : d.id # result[q]
                /\ \A c \in document_chunks' : c.document_id # result[q]
      ]_vars

\* a second call has replaced the document of a first call with the same
\* bytes and collection
C1_Witness ==
    \E p, q \in Uploads :
        /\ p # q /\ pc[p] = "stored" /\ pc[q] = "stored" /\ SameKey(p, q)
        /\ existing[q] = result[p]
        /\ result[q] \in DocumentIds
        /\ result[p] \notin DocumentIds
        /\ get_document_chunks(result[p]) = {}
        /\ get_document_chunks(result[q]) # {}

\* C2: nothing serialises the check-delete-insert sequence: while one upload
\* is between its duplicate check and its commit, the duplicate check of a
\* concurrent upload of the same bytes and collection can run, and it reports
\* no duplicate as long as no row with the key is committed; a commit is
\* never blocked by a committed row with the same key.
C2_NoExclusion ==
    /\ \A p, q \in Uploads :
         (p # q /\ SameKey(p, q) /\ PastCheck(p) /\ pc[q] = "check_duplicate")
         => /\ ENABLED CheckDuplicate(q)
            /\ RowsWithKey(documents, file[q], inv[q]) = {}
                => _check_duplicate(compute_file_hash(file[q]), inv[q]) = {NoId}
    /\ \A p \in Uploads : pc[p] = "tx_commit" => ENABLED TxCommit(p)

\* two committed document rows share (file_hash, investigation_id), both
\* uploads having seen no duplicate
C2_Witness ==
    \E p, q \in Uploads :
        /\ p # q /\ SameKey(p, q)
        /\ pc[p] = "stored" /\ pc[q] = "stored"
        /\ existing[p] = NoId /\ existing[q] = NoId
        /\ \E d, e \in documents :
             /\ d.id = result[p] /\ e.id = result[q] /\ d.id # e.id
             /\ d.file_hash = e.file_hash
             /\ d.investigation_id = e.investigation_id

\* the rows store_document writes for document row d
ExpectedChunks(d) ==
    LET r == parse_upload_result(d.file_hash[2])
    IN  _insert_chunks(d.id, r.chunks,
                       embed_batch([i \in DOMAIN r.chunks |-> r.chunks[i].content]))

ExpectedTables(d) ==
    _insert_tables(d.id, parse_upload_result(d.file_hash[2]).tables)

ExpectedLinks(d) ==
    _insert_links(d.id, parse_upload_result(d.file_hash[2]).links)

\* C3: in every committed state each document row has all of its chunk rows
\* (at least one), table rows and link rows; no child row exists without its
\* document row; and a call that raised inside the transaction has left no
\* row of its document.
C3_DocumentsAreWhole ==
    /\ \A d \in documents :
         /\ get_document_chunks(d.id) = ExpectedChunks(d)
         /\ get_document_chunks(d.id) # {}
         /\ {t \in document_tables : t.document_id = d.id} = ExpectedTables(d)
         /\ {l \in document_links : l.document_id = d.id} = ExpectedLinks(d)
    /\ \A r \in document_chunks \cup document_tables \cup document_links :
         r.document_id \in DocumentIds
    /\ \A p \in Uploads :
         (pc[p] = "raised" /\ doc_id[p] # NoId)
         => /\ doc_id[p] \notin DocumentIds
            /\ \A r \in document_chunks \cup document_tables \cup document_links :
                 r.document_id # doc_id[p]

\* one upload is committed with tables and links while another one raised
\* after its document row had been inserted in the transaction
C3_Witness ==
    \E p, q \in Uploads :
        /\ pc[p] = "raised" /\ doc_id[p] # NoId
        /\ pc[q] = "stored" /\ result[q] \in DocumentIds
        /\ \E t \in document_tables : t.document_id = result[q]
        /\ \E l \in document_links : l.document_id = result[q]

\* C8: delete_document(id) returns True at most once per document; after it
\* did, the document row and every chunk row of it are gone for good; and a
\* delete request for an id that was deleted before answers 404.
C8_DeleteIsFinal ==
    /\ \A id \in DocIds :
         /\ delete_ok_count[id] <= 1
         /\ delete_ok_count[id] = 1
             => id \notin DocumentIds /\ get_document_chunks(id) = {}
    /\ last_delete.deleted_before => last_delete.status = 404

\* a document was deleted and a second delete request for it answered 404
C8_Witness ==
    /\ last_delete.deleted_before
    /\ last_delete.status = 404
    /\ \E id \in DocIds : delete_ok_count[id] = 1

\* ---- C6 ----
\* C6: chunk_text called with both sizes given and 0 < chunk_overlap <
\* chunk_size returns only chunks whose content is at most chunk_size
\* characters long, except a chunk that is one single sentence which alone
\* is longer than chunk_size.
SingleSentences(text) ==
    {Strip(_split_sentences(text)[k]) : k \in DOMAIN _split_sentences(text)}

C6_ChunkWithinSize ==
    (ct_done /\ ct_size # Omitted /\ ct_overlap # Omitted
        /\ 0 < ct_overlap /\ ct_overlap < ct_size)
    => \A k \in DOMAIN ct_chunks :
          \/ Len(ct_chunks[k].content) <= ct_size
          \/ /\ ct_chunks[k].content \in SingleSentences(ct_text)
             /\ Len(ct_chunks[k].content) > ct_size

\* ---- C4 ----
\* C4: every ParserResult with success = true that parse_upload returns has
\* metadata, content and at least one chunk.
C4_SuccessHasChunks ==
    pu_done =>
        \A r \in pu_result :
            r.success =>
                /\ r.metadata # Absent
                /\ r.content # Absent
                /\ \A c \in r.content : c.chunks # <<>>

\* ---- C5 ----
\* C5: whenever parse_upload succeeds with non-empty extracted text, the
\* chunk_index values of the returned chunks, in list order, are 0, 1, ...,
\* n-1.
C5_ChunkIndexesContiguous ==
    pu_done =>
        \A r \in pu_result :
            r.success =>
                \A c \in r.content :
                    c.full_text # <<>> =>
                        \A k \in DOMAIN c.chunks : c.chunks[k].chunk_index = k - 1

\* ---- C9 ----
\* the tags some parser class lists in its supported_types
OwnedTags == UNION {Range(supported_types(parser)) : parser \in Range(DefaultParsers)}

\* C9: for a filename whose detected tag no parser owns, parse_upload
\* returns success = false with an error naming the tag, calls no
\* extractor and does not read the stream.
C9_UnregisteredRejected ==
    (pu_done /\ detect_file_type(pu_filename) \notin OwnedTags) =>
        /\ pu_calls = <<>>
        /\ \A r \in pu_result :
              /\ ~r.success
              /\ r.metadata = Absent /\ r.content = Absent
              /\ r.error = <<"Unsupported file type: ", detect_file_type(pu_filename)>>

\* a file with a recognised tag that no parser owns has been rejected
C9_Witness ==
    /\ pu_done
    /\ pu_filename = <<"mail", ".", "MSG">>
    /\ pu_data.decoded = <<"a", ".">>
    /\ pu_calls = <<>>
    /\ \E r \in pu_result : ~r.success /\ r.error[2] = "msg"

\* ---- C10 ----
\* C10: every chunk_size and chunk_overlap given inside the route's bounds
\* is the value every chunk_text call of the parse runs with.
C10_ExplicitValuesUsed ==
    (/\ pu_done
     /\ pu_chunk_size \in chunk_size_ge..chunk_size_le
     /\ pu_chunk_overlap \in chunk_overlap_ge..chunk_overlap_le) =>
        \A r \in pu_result :
            \A k \in DOMAIN r.chunk_text_calls :
                /\ r.chunk_text_calls[k].chunk_size = pu_chunk_size
                /\ r.chunk_text_calls[k].chunk_overlap = pu_chunk_overlap

\* ---- C7 ----
\* C7: the upload handler appends exactly one result per file, in request
\* order; a file that is unsupported, is not stored or raises gets a failed
\* result, the loop then goes on with the next file, and the response
\* carries one result for each of the N files.
C7_BatchResultsPerFile ==
    /\ Len(b_results) = b_next - 1
    /\ \A i \in DOMAIN b_results :
          /\ b_results[i].filename = b_files[i]
          /\ b_results[i].success =>
                pc[i] = "stored" /\ b_results[i].document_id = result[i]
          /\ (~upload_is_supported(b_files[i]) \/ pc[i] \in {"returned_none", "raised"})
                => ~b_results[i].success
    /\ \A r \in b_response :
          /\ r.results = b_results
          /\ Len(r.results) = Len(b_files)
          /\ r.total = Len(b_files)
    /\ \A p \in Uploads :
          (AtFile(p) /\ pc[p] = "idle") =>
              ENABLED (BatchUnsupported(p) \/ BatchStore(p))

\* the first file's store_document raised, the second file was stored
C7_Witness ==
    /\ b_response # {}
    /\ Len(b_files) = 2
    /\ pc[1] = "raised"
    /\ ~b_results[1].success
    /\ b_results[2].success
    /\ b_results[2].chunk_count = 2

\* ---- C11 ----
\* the tag of the lower-cased text after the last "." of the whole filename:
\* unknown when there is no "." or when that text is not in the tag table
TagOfTextAfterLastDot(filename) ==
    LET i == LastIndexOf(filename, ".", Len(filename))
        rest == SubSeq(filename, i + 1, Len(filename))
    IN  IF i > 0 /\ Len(rest) = 1 /\ Lower(rest[1]) \in FileTypeValues
        THEN Lower(rest[1]) ELSE "unknown"

\* C11: the tag detect_file_type gives a filename is the tag of the
\* lower-cased text after the filename's last ".", unknown when there is no
\* "." or no such tag.
C11_TagOfFinalExtension ==
    pu_done => detect_file_type(pu_filename) = TagOfTextAfterLastDot(pu_filename)

\* ---- C12 ----
\* position of a step in the body of store_document; the three ways a call
\* ends share the last position
StepRank(state) ==
    CASE state = "idle" -> 0
      [] state = "check_duplicate" -> 1
      [] state = "delete_existing" -> 2
      [] state = "store_original" -> 3
      [] state = "embed" -> 4
      [] state = "tx_document" -> 5
      [] state = "tx_chunks" -> 6
      [] state = "tx_tables" -> 7
      [] state = "tx_links" -> 8
      [] state = "tx_commit" -> 9
      [] OTHER -> 10

\* C12: within one store_document call the steps run in the order parse,
\* duplicate check (with the delete of a match), blob store, batched
\* embedding, transactional insert: every move of a call goes to a strictly
\* later step, so no step runs twice, and a call that has ended (stored,
\* returned absent or raised) never moves again, so nothing is retried after
\* a failure.
C12_StepsInOrder ==
    [][\A p \in Uploads :
         pc'[p] # pc[p] =>
           /\ StepRank(pc'[p]) > StepRank(pc[p])
           /\ ~InFlight(p) => pc[p] = "idle"]_vars

\* a call that failed inside the transaction after embedding, next to a call
\* that went through every step
C12_Witness ==
    \E p, q \in Uploads :
      /\ pc[p] = "raised" /\ embeddings[p] # <<>>
      /\ pc[q] = "stored" /\ result[q] # NoId

\* ---- C13 ----
\* the call has a blob store and its upload_file raised: the call is past the
\* blob step without a key
BlobStoreRaised(p) ==
    /\ s3_service # None
    /\ s3_key[p] = None
    /\ pc[p] \in {"embed", "tx_document", "tx_chunks", "tx_tables", "tx_links",
                  "tx_commit", "stored"}

\* C13: an exception of the blob store's upload_file does not abort the
\* upload: the blob step always hands over to the embedding step, after a
\* failed blob write the embedding and every statement of the transaction
\* can still run, and the commit persists the document with an absent blob
\* key and returns its id, as it does when no blob store is configured.
C13_BlobFailureDoesNotAbort ==
    [][\A p \in Uploads :
         /\ (pc[p] = "store_original" /\ pc'[p] # pc[p]) => pc'[p] = "embed"
         /\ (BlobStoreRaised(p) /\ pc[p] = "embed") => ENABLED EmbedBatch(p)
         /\ (BlobStoreRaised(p) /\ InTransaction(p)) =>
              ENABLED (TxInsertDocument(p) \/ TxInsertChunks(p)
                       \/ TxInsertTables(p) \/ TxInsertLinks(p) \/ TxCommit(p))
         /\ (s3_key[p] = None /\ pc[p] = "tx_commit" /\ pc'[p] = "stored") =>
              /\ result'[p] = doc_id[p]
              /\ result'[p] # NoId
              /\ \E d \in documents' : d.id = result'[p] /\ d.s3_key = None]_vars

\* a stored document without a blob key although a blob store is configured
C13_Witness ==
    \E p \in Uploads :
      /\ BlobStoreRaised(p)
      /\ pc[p] = "stored"
      /\ \E d \in documents : d.id = result[p] /\ d.s3_key = None

\* ---- C14 ----
\* the parse of the bytes b fails or yields no chunk
ParseFails(b) ==
    LET r == parse_upload_result(b)
    IN  ~r.success \/ r.chunks = <<>>

\* what a call holds when it has done nothing but parse
NothingDone(p) ==
    /\ existing[p] = NoId
    /\ s3_key[p] = None
    /\ embeddings[p] = <<>>
    /\ doc_id[p] = NoId
    /\ tx[p] = EmptyTx
    /\ result[p] = NoId

\* C14: when parsing returns success = false or an empty chunk list, the
\* call returns absent at once: the step that parses leaves every table, the
\* id counter and the delete history as they were, the call has run no
\* duplicate check, delete, blob write, embedding request or insert, and it
\* never does afterwards.
C14_ParseFailureTouchesNothing ==
    [][\A p \in Uploads :
         /\ (pc[p] = "idle" /\ pc'[p] # "idle" /\ ParseFails(file'[p])) =>
              /\ pc'[p] = "returned_none"
              /\ dbVars' = dbVars
              /\ next_id' = next_id
              /\ delete_ok_count' = delete_ok_count
              /\ NothingDone(p)'
         /\ (pc[p] # "idle" /\ ParseFails(file[p])) =>
              /\ pc[p] = "returned_none"
              /\ pc'[p] = pc[p]
              /\ NothingDone(p)']_vars

\* a call for bytes without text that returned absent while the tables hold
\* an earlier document
C14_Witness ==
    \E p, q \in Uploads :
      /\ pc[p] = "returned_none" /\ file[p] \in {"blank", "corrupt"}
      /\ NothingDone(p)
      /\ pc[q] = "stored" /\ documents # {}

\* ---- C15 ----
\* C15: for every persisted document, the call that stored it requested
\* exactly one embedding per chunk, in the order of the chunk list; the
\* document has exactly one chunk row per chunk, and the row of the chunk at
\* position i carries that chunk's chunk_index and content together with the
\* i-th vector, which is the embedding of that chunk's content; no chunk row
\* carries another chunk's vector or none.
C15_RowCarriesOwnEmbedding ==
    /\ \A d \in documents :
         \E p \in Uploads : pc[p] = "stored" /\ result[p] = d.id
    /\ \A p \in Uploads :
         (pc[p] = "stored" /\ result[p] \in DocumentIds) =>
           LET cs == parse_upload_result(file[p]).chunks
               rows == get_document_chunks(result[p])
           IN  /\ Len(embeddings[p]) = Len(cs)
               /\ \A i \in DOMAIN cs : embeddings[p][i] = embed(cs[i].content)
               /\ Cardinality(rows) = Len(cs)
               /\ \A i \in DOMAIN cs :
                    \E c \in rows :
                      /\ c.chunk_index = cs[i].chunk_index
                      /\ c.content = cs[i].content
                      /\ c.embedding = embeddings[p][i]
               /\ \A c \in rows :
                    \E i \in DOMAIN cs :
                      /\ c.chunk_index = cs[i].chunk_index
                      /\ c.content = cs[i].content
                      /\ c.embedding = embeddings[p][i]
                      /\ c.embedding = embed(c.content)

\* a persisted document of more than one chunk, so that positions matter
C15_Witness ==
    \E p \in Uploads :
      /\ pc[p] = "stored"
      /\ result[p] \in DocumentIds
      /\ Len(parse_upload_result(file[p]).chunks) > 1
      /\ Cardinality(get_document_chunks(result[p])) > 1

\* ---- C16 ----
\* positions of the register calls made for tag t
CallsFor(t) == {k \in DOMAIN register_calls : register_calls[k].file_type = t}

Latest(S) == CHOOSE k \in S : \A j \in S : j <= k

\* C16: after any sequence of register calls, get_parser(t) is the extractor
\* of the most recent register call for t and absent for a tag no call was
\* made for; is_supported(t) holds exactly when get_parser(t) is not absent;
\* and supported_types() is exactly the set of tags a call was made for.
C16_LatestRegistrationWins ==
    /\ \A t \in FileTypeValues :
         /\ ParserRegistry_get_parser(t) =
              IF CallsFor(t) = {} THEN None
              ELSE register_calls[Latest(CallsFor(t))].parser
         /\ ParserRegistry_is_supported(t) <=> ParserRegistry_get_parser(t) # None
    /\ ParserRegistry_supported_types = {t \in FileTypeValues : CallsFor(t) # {}}

\* a default tag was registered again with another extractor, a tag without
\* default extractor was registered, and some tag is still unregistered
C16_Witness ==
    /\ Cardinality(CallsFor("pdf")) > 1
    /\ ParserRegistry_get_parser("pdf") = "OcrParser"
    /\ ParserRegistry_get_parser("png") = "TextParser"
    /\ ParserRegistry_get_parser("xlsx") = "XlsxParser"
    /\ ParserRegistry_get_parser("jpg") = None

\* ---- C17 ----
\* C17: when a parse_upload call that went to an office extractor (docx/doc,
\* pptx/ppt, xlsx/xls) has returned, no temporary file of the call is on
\* disk any more: neither the file holding the original bytes nor, for a
\* legacy format whose conversion succeeded, the converted output.
C17_TempFilesRemoved ==
    pu_done => pu_temp_files = {}

\* ---- C18 ----
\* position of a chunk in the order of retrieval: document rows first, then
\* email rows
RetrievalRank(c) ==
    IF c.source_type = "document" THEN c.source_id ELSE MaxDocRows + 1 + c.source_id

\* the chunk list is in descending order of relevance and equal scores keep
\* the order of retrieval
SortedStable(chunks) ==
    \A i, j \in DOMAIN chunks :
      i < j =>
        /\ SortKey(chunks[i]) >= SortKey(chunks[j])
        /\ SortKey(chunks[i]) = SortKey(chunks[j])
           => RetrievalRank(chunks[i]) < RetrievalRank(chunks[j])

\* C18: the chunk list build_from_search returns, with or without
\* include_emails, is sorted by relevance_score in descending order, chunks of
\* equal score keep the order in which they were retrieved (documents before
\* emails), and the list is never longer than the max_chunks the call was
\* given (the default when the argument is absent).
C18_SortedAndCapped ==
    bc_done =>
      \A c \in bc_context :
        /\ SortedStable(c.chunks)
        /\ Len(c.chunks) <= IF bc_max_chunks = Omitted THEN default_max_chunks
                            ELSE bc_max_chunks

\* the part that holds for every call: order and stability
C18_OrderPart ==
    bc_done => \A c \in bc_context : SortedStable(c.chunks)

\* the cap that holds: the effective max_chunks (an argument of 0 counts as
\* absent)
C18_EffectiveCap ==
    bc_done =>
      \A c \in bc_context :
        Len(c.chunks) <= OrDefault(bc_max_chunks, default_max_chunks)

\* ---- C19 ----
\* the complete rendering of the first k chunks
RenderedPrefix(chunks, k) ==
    Join([i \in 1..k |-> ChunkText(chunks[i])], PartSeparator)

RECURSIVE RenderedChars(_, _)
RenderedChars(chunks, k) ==
    IF k = 0 THEN 0 ELSE Len(ChunkText(chunks[k])) + RenderedChars(chunks, k - 1)

\* C19: the text to_text(max_chars) returns is the rendering of a prefix of
\* the chunk list, every chunk of the prefix with its complete header and
\* content, so no chunk is split; when the prefix is not the whole list, the
\* first chunk left out did not fit the budget, and no chunk after it is
\* included.
C19_RendersWholePrefix ==
    tt_done =>
      \E k \in 0..Len(tt_chunks) :
        /\ tt_text = RenderedPrefix(tt_chunks, k)
        /\ k < Len(tt_chunks) =>
             /\ Truthy(tt_max_chars)
             /\ RenderedChars(tt_chunks, k) + Len(ChunkText(tt_chunks[k + 1]))
                  > tt_max_chars

\* a call that rendered the first chunk, left out the second for the budget
\* and left out the third although the third alone would still have fitted
C19_Witness ==
    /\ tt_done
    /\ Len(tt_chunks) = 3
    /\ tt_text = RenderedPrefix(tt_chunks, 1)
    /\ tt_text # <<>>
    /\ Truthy(tt_max_chars)
    /\ Len(ChunkText(tt_chunks[1])) + Len(ChunkText(tt_chunks[2])) > tt_max_chars
    /\ Len(ChunkText(tt_chunks[1])) + Len(ChunkText(tt_chunks[3])) <= tt_max_chars

C21_EmailChunkOrder ==
    (pu_done /\ detect_file_type(pu_filename) = "eml") =>
      \A r \in pu_result :
        r.success =>
          \A c \in r.content :
            LET chunks == c.chunks
                n == Len(chunks)
                has_att == pu_data.attachments > 0
                last_body == IF has_att THEN n - 1 ELSE n
            IN  /\ n >= (IF has_att THEN 3 ELSE 2)
                /\ chunks[1].source = <<"email_headers">>
                /\ \A k \in 2..last_body :
                     /\ chunks[k].source \notin {<<"email_headers">>,
                                                 <<"email_attachments">>}
                     /\ chunks[k].heading = pu_data.headers.subject
                /\ has_att => chunks[n].source = <<"email_attachments">>
                /\ \A k \in 1..n : chunks[k].chunk_index = k - 1

\* what holds for every parsed email: the categories come in this order,
\* each at most as often as the email has the part, and the index is
\* contiguous
C21_OrderPart ==
    (pu_done /\ detect_file_type(pu_filename) = "eml") =>
      \A r \in pu_result :
        r.success =>
          \A c \in r.content :
            /\ \A k \in DOMAIN c.chunks : c.chunks[k].chunk_index = k - 1
            /\ \A j, k \in DOMAIN c.chunks :
                 j < k => /\ c.chunks[k].source # <<"email_headers">>
                          /\ c.chunks[j].source # <<"email_attachments">>
            /\ (\E k \in DOMAIN c.chunks : c.chunks[k].source = <<"email_attachments">>)
               <=> pu_data.attachments > 0

\* ---- C22 ----
\* C22: for a .ppt whose conversion is unavailable, times out or fails,
\* parse_upload returns success = false with an error, without content and
\* without having extracted or chunked any slide; a .ppt result with
\* success = true always comes from a converted file.
C22_UnconvertedPptFails ==
    (pu_done /\ detect_file_type(pu_filename) = "ppt") =>
      \A r \in pu_result :
        /\ ~pu_data.converts =>
             /\ ~r.success
             /\ r.error # <<>>
             /\ r.content = Absent
             /\ r.chunk_text_calls = <<>>
        /\ r.success => pu_data.converts

\* a .ppt with slides that could not be converted and was refused
C22_Witness ==
    /\ pu_done
    /\ detect_file_type(pu_filename) = "ppt"
    /\ ~pu_data.converts
    /\ Len(pu_data.units) > 1
    /\ \E k \in DOMAIN pu_data.units : pu_data.units[k] # <<>>
    /\ \A r \in pu_result : ~r.success /\ r.content = Absent

\* ---- C23 ----
\* the call ended without storing anything
Failed(p) == pc[p] \in {"returned_none", "raised"}

\* C23: when a store_document call has failed (returned absent or raised)
\* after it had found a document with its (file_hash, investigation_id), that
\* document and its chunks are still persisted, unless another call has
\* replaced it since; calls run one at a time here and no delete request is
\* made.
C23_FailedCallKeepsDocuments ==
    \A p \in Uploads :
      (Failed(p) /\ existing[p] # NoId) =>
        \/ /\ existing[p] \in DocumentIds
           /\ get_document_chunks(existing[p]) # {}
        \/ \E q \in Uploads \ {p} : pc[q] = "stored" /\ existing[q] = existing[p]

\* ---- C24 ----
\* C24: whenever the upload handler appends a result with success = true,
\* under any interleaving with delete requests, the document named by the
\* result's document_id exists at that moment, and chunk_count is at least 1
\* and equal to the number of chunk rows stored for that document.
C24_SuccessResultHasDocument ==
    [][\A p \in Uploads :
         (AtFile(p) /\ b_next' = p + 1 /\ b_results'[p].success) =>
           /\ b_results'[p].document_id \in DocumentIds
           /\ b_results'[p].chunk_count >= 1
           /\ b_results'[p].chunk_count =
                Cardinality(get_document_chunks(b_results'[p].document_id))]_vars

\* ---- C25 ----
\* C25: a step of a store_document call removes a document row only when it
\* is the call's delete of its duplicate, and then only rows whose
\* (file_hash, investigation_id) is the call's own; rows with another hash,
\* or with the same hash in another collection or in none, stay, and chunk
\* rows go only with their document.  Calls run one at a time and no delete
\* request is made.
C25_DeletesOnlyOwnKey ==
    [][/\ \A d \in documents \ documents' :
            \E p \in Uploads :
              /\ pc[p] = "delete_existing" /\ pc'[p] # pc[p]
              /\ d.id = existing[p]
              /\ d.file_hash = compute_file_hash(file[p])
              /\ d.investigation_id = inv[p]
       /\ \A c \in document_chunks \ document_chunks' :
            \E d \in documents \ documents' : d.id = c.document_id]_vars

\* the same bytes stored in a collection and outside any collection: two
\* documents side by side, the second call having deleted nothing
C25_Witness ==
    \E p, q \in Uploads :
      /\ pc[p] = "stored" /\ pc[q] = "stored"
      /\ file[p] = file[q] /\ inv[p] # inv[q]
      /\ existing[p] = NoId /\ existing[q] = NoId
      /\ result[p] \in DocumentIds /\ result[q] \in DocumentIds
      /\ result[p] # result[q]

\* ---- C26 ----
\* C26: under any interleaving of get_pool and init_pool calls, at most one
\* pool is ever created, and every caller that has returned was given that
\* one pool.
C26_OnePool ==
    /\ pools_created <= 1
    /\ \A c \in PoolCallers :
         pool_pc[c] = "returned" => pool_returned[c] = 1 /\ _pool = 1

\* ---- C27 ----
\* the source a returned chunk names: its type and the id in source_id (the
\* document_id of the row a document chunk was made from, the id of the
\* email for an email chunk)
SourceOfChunk(c) ==
    IF c.source_type = "document"
    THEN <<"document", bc_doc_results[c.source_id].document_id>>
    ELSE <<"email", c.source_id>>

\* the entries of sources_used: each has type "document" and a document id
SourcesUsed(ctx) ==
    {<<"document", ctx.sources_used[i]>> : i \in DOMAIN ctx.sources_used}

\* C27: in the context build_from_search returns, every returned chunk's
\* source appears in sources_used, and every entry of sources_used is the
\* source of a chunk that is left after sorting and capping.
C27_SourcesAgreeWithChunks ==
    \A ctx \in bc_context :
        /\ \A i \in DOMAIN ctx.chunks :
             SourceOfChunk(ctx.chunks[i]) \in SourcesUsed(ctx)
        /\ \A s \in SourcesUsed(ctx) :
             \E i \in DOMAIN ctx.chunks : SourceOfChunk(ctx.chunks[i]) = s

\* ---- C28 ----
\* C28: when a character budget max_chars is given, the text to_text
\* returns, the separators that join the chunks included, is never longer
\* than max_chars.
C28_TextWithinBudget ==
    (tt_done /\ tt_max_chars # Omitted) => Len(tt_text) <= tt_max_chars

\* ---- C29 ----
\* the chunks the direct documents contributed
DirectCount ==
    IF HasDocumentIds(cc_document_ids) /\ cc_context_parts # <<>>
    THEN Len(cc_context_parts[1].chunks)
    ELSE 0

\* C29: for max_context_items >= 0 and any document_ids, the chunk_count
\* build_chat_context returns, direct chunks plus searched chunks, never
\* exceeds max_context_items, and the search runs only when the direct
\* documents have left budget.
C29_ChunkCountWithinBudget ==
    /\ \A r \in cc_result : r.chunk_count <= cc_max_context_items
    /\ cc_searched => DirectCount < cc_max_context_items

\* a returned call whose direct documents gave chunks and whose search then
\* filled exactly the budget they had left
C29_Witness ==
    /\ cc_pc = "returned"
    /\ cc_searched
    /\ DirectCount > 0
    /\ \E r \in cc_result : r.chunk_count = cc_max_context_items

\* ---- C30 ----
\* sentences[a..b] put together
RECURSIVE ConcatUnits(_, _, _)
ConcatUnits(sentences, a, b) ==
    IF a > b THEN <<>> ELSE sentences[a] \o ConcatUnits(sentences, a + 1, b)

\* the suffixes of a buffer that are at most limit characters long
SuffixesUpTo(buffer, limit) ==
    {SubSeq(buffer, i, Len(buffer)) :
       i \in {j \in 1..(Len(buffer) + 1) : Len(buffer) - j + 1 <= limit}}

\* chunks[k..] are made of the sentences from a on: chunk k is the trimmed
\* buffer of an overlap text followed by the whole sentences a..b, b >= a,
\* the next chunk goes on at b + 1, and the last chunk ends with the last
\* sentence; the overlap text is empty for the first chunk and afterwards a
\* suffix of the buffer before, at most limit characters long
RECURSIVE MadeOfSentences(_, _, _, _, _, _)
MadeOfSentences(chunks, k, sentences, a, buffer, limit) ==
    IF k > Len(chunks) THEN a = Len(sentences) + 1
    ELSE \E b \in a..Len(sentences) :
           \E overlap_text \in (IF k = 1 THEN {<<>>} ELSE SuffixesUpTo(buffer, limit)) :
             LET current_chunk == overlap_text \o ConcatUnits(sentences, a, b)
             IN  /\ chunks[k].content = Strip(current_chunk)
                 /\ MadeOfSentences(chunks, k + 1, sentences, b + 1,
                                    current_chunk, limit)

\* C30: chunk_text loses and reorders nothing: for a non-blank input every
\* sentence unit of the splitter is whole inside an emitted chunk, the
\* sentences come in input order over the chunk sequence, and what a chunk
\* holds before its new sentences is a suffix of the buffer emitted before
\* it, no longer than the chunk_overlap given (the default when none is
\* given) unless that whole buffer was no longer than chunk_overlap.
C30_NothingLostOrReordered ==
    (ct_done /\ Strip(ct_text) # <<>>) =>
        MadeOfSentences(ct_chunks, 1, _split_sentences(ct_text), 1, <<>>,
                        IF ct_overlap = Omitted THEN default_chunk_overlap
                        ELSE ct_overlap)

\* the same with the overlap chunk_text runs with, "chunk_overlap or
\* self.default_chunk_overlap", which is the default also for chunk_overlap 0
NothingLostWithEffectiveOverlap ==
    (ct_done /\ Strip(ct_text) # <<>>) =>
        MadeOfSentences(ct_chunks, 1, _split_sentences(ct_text), 1, <<>>,
                        OrDefault(ct_overlap, default_chunk_overlap))

====
